---- MODULE Spec2Model ----
(***************************************************************************)
(* Model of the plan controller of OpenHands (DistilledAI fork):           *)
(* openhands/controller/planning_controller/planning_controller.py.        *)
(*                                                                         *)
(* One PlanController is subscribed to one event stream.  `queue` holds    *)
(* the published events the controller has not handled yet, in id order.   *)
(* One dispatch models one call of PlanController.on_event: the handler    *)
(* _on_event and, when should_step holds, the _step task that step()       *)
(* creates: on_event runs the loop with run_until_complete, the task is    *)
(* queued before the handler's completion callback and _step never         *)
(* suspends, so it has run when on_event returns.  The planner LLM, the    *)
(* user, the memory and runtime that answer actions, and the delegate      *)
(* AgentControllers are the environment.                                   *)
(***************************************************************************)
EXTENDS Integers, Sequences, FiniteSets, TLC

\* ------------------------------------------------------------------ bounds
MaxEvents == 18         \* ids handed out by the stream: 0 .. MaxEvents-1
MaxTasks == 2           \* tasks of a plan created by the planner
MaxDelegates == 2       \* delegate controllers constructed in one behaviour
MaxUserEvents == 2      \* events published by the user in one behaviour
MaxCap == 2             \* largest max_iterations given to the constructor
MaxLag == 1             \* events the controller may be behind when the
                        \* environment publishes another one

PlanIds == {"p1", "p2"}
NoPlan == "none"

\* --------------------------------------------------------------- variables
VARIABLES
    headless_mode,            \* PlanController.headless_mode
    initial_max_iterations,   \* PlanController._initial_max_iterations
    max_budget_per_task,      \* PlanController.max_budget_per_task, -1 = None
    initial_max_budget_per_task, \* PlanController._initial_max_budget_per_task
    agent_state,              \* state.agent_state
    traffic_control_state,    \* state.traffic_control_state
    iteration,                \* state.iteration
    max_iterations,           \* state.max_iterations
    llm_cost,                 \* planning_agent.llm.metrics.accumulated_cost
    local_cost,               \* state.local_metrics.accumulated_cost
    metrics_cost,             \* state.metrics.accumulated_cost
    pending_action,           \* PlanController._pending_action
    plans,                    \* state.plans: plan_id -> sequence of tasks
    active_plan_id,           \* state.active_plan_id
    current_task_index,       \* state.current_task_index
    task_controllers,         \* PlanController.task_controllers
    delegates,                \* the AgentControllers constructed so far
    history,                  \* state.history
    stream,                   \* the events of the event stream, in id order
    queue,                    \* events published and not yet handled
    next_id,                  \* the id the stream gives the next event
    unanswered,               \* ids of actions whose observation is due
    user_events,              \* events the user has published
    status_callback,          \* PlanController.status_callback is not None
    enable_history_truncation, \* planning_agent.config.enable_history_truncation
    confirmation_mode,        \* state.confirmation_mode
    truncation_id,            \* state.truncation_id, -1 = not set
    start_id,                 \* state.start_id
    tool_plans,               \* PlanningTool.plans, in insertion order
    tool_current_plan_id,     \* PlanningTool._current_plan_id
    tool_last,                \* the last command given to the tool
    pending_actions,          \* CodeActAgent.pending_actions
    completions,              \* calls of CodeActAgent.llm.completion so far
    agent_last,               \* the last call of the CodeAct agent
    hub_last,                 \* the last call of FunctionHubRunner.run
    planning_agent,           \* PlanningAgent and its run() generator
    sessions,                 \* the PlanControllers of one process and their class
    last                      \* what the last transition did (history variable)

vars == <<headless_mode, initial_max_iterations, max_budget_per_task,
          initial_max_budget_per_task,
          agent_state, traffic_control_state, iteration, max_iterations,
          llm_cost, local_cost, metrics_cost, pending_action, plans,
          active_plan_id, current_task_index, task_controllers, delegates,
          history, stream, queue, next_id, unanswered, user_events,
          status_callback, enable_history_truncation, confirmation_mode,
          truncation_id, start_id, tool_plans,
          tool_current_plan_id, tool_last, pending_actions, completions,
          agent_last, hub_last, planning_agent, sessions, last>>

\* ------------------------------------------------------------------ events
\* One record shape for every event.  sender is not a field of the program's
\* events: it records which controller published the event (0 the planner's
\* controller, d > 0 the d-th delegate, -1 the user or the environment).
Ev(kind, source, cause, plan, task, status, n, wait, tcm, sender) ==
    [id |-> -1, kind |-> kind, source |-> source, cause |-> cause,
     plan |-> plan, task |-> task, status |-> status, n |-> n,
     wait |-> wait, tcm |-> tcm, sender |-> sender]

NoEvent == Ev("None", "NONE", -1, NoPlan, -1, "", -1, FALSE, 0, -1)

ActionKinds == {"Message", "Recall", "CmdRun", "CreatePlan", "MarkTask",
                "AssignTask", "AgentFinish", "AgentReject", "ChangeAgentState"}
ObservationKinds == {"CmdOutput", "Error", "AgentStateChanged",
                     "AgentCondensation", "NullObs"}

IsAction(e) == e.kind \in ActionKinds
IsObservation(e) == e.kind \in ObservationKinds

\* Action.runnable of each kind
Runnable(e) == e.kind \in {"CmdRun"}

MessageAction(source, wait, plan, task, sender) ==
    Ev("Message", source, -1, plan, task, "", -1, wait, 0, sender)
RecallAction == Ev("Recall", "USER", -1, NoPlan, -1, "", -1, FALSE, 0, 0)
MarkTaskAction(plan, task, status) ==
    Ev("MarkTask", "AGENT", -1, plan, task, status, -1, FALSE, 0, 0)
AssignTaskAction(plan, task, delegate_id) ==
    Ev("AssignTask", "USER", -1, plan, task, "", delegate_id, FALSE, 0, 0)
AgentStateChangedObservation(s) ==
    Ev("AgentStateChanged", "ENVIRONMENT", -1, NoPlan, -1, s, -1, FALSE, 0, 0)
ErrorObservation(cause, tcm) ==
    Ev("Error", "AGENT", cause, NoPlan, -1, "", -1, FALSE, tcm, 0)

\* ------------------------------------------------------ the planning tool
MaxSteps == 2       \* longest step list given to the tool
MaxCalls == 3       \* commands given to one tool

None == "None"                 \* Python's None where a string is expected
NoneIndex == -100              \* Python's None where an index is expected
NotAString == "<not-a-str>"    \* a step that is not a string
StepTexts == {"a", "b"}
TitleArgs == {"", "t", "u"}    \* "": the title is missing

\* PlanStepStatus.get_all_statuses
AllStatuses == {"not_started", "in_progress", "completed", "blocked"}

\* PlanStepStatus.get_status_marks, as status_marks.get(status, default)
StatusMark(status) ==
    CASE status = "completed" -> "[v]"
      [] status = "in_progress" -> "[>]"
      [] status = "blocked" -> "[!]"
      [] OTHER -> "[ ]"

\* the steps argument: kind "none" is None or an empty list, "list" a
\* non-empty list, "other" a non-empty value that is not a list
NoSteps == [kind |-> "none", items |-> <<>>]
StepLists(texts) ==
    UNION {[1..n -> texts] : n \in 1..MaxSteps}
StepsArgs ==
    {NoSteps, [kind |-> "other", items |-> <<>>]}
    \cup {[kind |-> "list", items |-> s] : s \in StepLists(StepTexts)}
    \cup {[kind |-> "list", items |-> <<NotAString>>],
          [kind |-> "list", items |-> <<"a", NotAString>>]}

\* isinstance(steps, list) and all(isinstance(step, str) for step in steps)
ListOfStrings(steps) ==
    /\ steps.kind \in {"list", "none"}
    /\ \A k \in 1..Len(steps.items) : steps.items[k] # NotAString

Args(command, plan_id, title, steps, index, status, notes, result) ==
    [command |-> command, plan_id |-> plan_id, title |-> title,
     steps |-> steps, step_index |-> index, step_status |-> status,
     step_notes |-> notes, step_result |-> result]

NoOutput == [msg |-> "", plan_id |-> NoPlan, rows |-> <<>>]
NoCommand ==
    [n |-> 0, args |-> Args("", NoPlan, "", NoSteps, NoneIndex, "", "", None),
     error |-> "", output |-> NoOutput]

\* The tool's fields gathered in one record: a command is a function from
\* frame to frame.  error: the ValueError raised, output: the value returned.
Tool ==
    [plans |-> tool_plans, current |-> tool_current_plan_id, error |-> "",
     output |-> NoOutput]

ValueError(t, what) == [t EXCEPT !.error = what]

\* the position of plan_id in self.plans, 0 if it is not stored
PlanAt(ps, plan_id) ==
    IF \E k \in 1..Len(ps) : ps[k].plan_id = plan_id
    THEN CHOOSE k \in 1..Len(ps) : ps[k].plan_id = plan_id
    ELSE 0

Repeat(n, x) == [k \in 1..n |-> x]

\* the while loops of _format_plan: a list shorter than steps is padded
PadTo(n, list, x) ==
    IF Len(list) < n THEN list \o Repeat(n - Len(list), x) ELSE list

Padded(plan) ==
    [plan EXCEPT
       !.step_statuses = PadTo(Len(plan.steps), @, "not_started"),
       !.step_notes = PadTo(Len(plan.steps), @, ""),
       !.step_results = PadTo(Len(plan.steps), @, None)]

Shortest(plan) ==
    LET lens == {Len(plan.steps), Len(plan.step_statuses),
                 Len(plan.step_notes), Len(plan.step_results)}
    IN CHOOSE n \in lens : \A m \in lens : n <= m

CountOf(plan, status) ==
    Cardinality({k \in 1..Len(plan.step_statuses) :
                    plan.step_statuses[k] = status})

\* PlanningTool._format_plan: the header, the counts, and one row per step
\* with its index, mark and text, notes and result when they are not empty
FormatPlan(plan) ==
    LET p == Padded(plan)
    IN [title |-> p.title, plan_id |-> p.plan_id,
        completed |-> CountOf(p, "completed"), total |-> Len(p.steps),
        in_progress |-> CountOf(p, "in_progress"),
        blocked |-> CountOf(p, "blocked"),
        not_started |-> CountOf(p, "not_started"),
        lines |-> [k \in 1..Shortest(p) |->
                     [i |-> k - 1, mark |-> StatusMark(p.step_statuses[k]),
                      step |-> p.steps[k], notes |-> p.step_notes[k],
                      result |-> IF p.step_results[k] = None THEN ""
                                 ELSE p.step_results[k]]]]

\* a command returns msg followed by the formatted plan at position k;
\* formatting pads the stored lists in place
Formatted(t, msg, k) ==
    [t EXCEPT !.plans[k] = Padded(@),
              !.output = [msg |-> msg, plan_id |-> t.plans[k].plan_id,
                          rows |-> <<FormatPlan(t.plans[k])>>]]

Target_Given(t, plan_id) == plan_id

\* plan_id, or the current plan when plan_id is omitted
Target(t, plan_id) == IF plan_id = NoPlan THEN t.current ELSE plan_id

PlanningTool_create_plan_Untitled(t, plan_id, title, steps) ==
    IF plan_id = NoPlan THEN ValueError(t, "plan_id required")
    ELSE IF PlanAt(t.plans, plan_id) # 0 THEN ValueError(t, "already exists")
    ELSE IF steps.kind # "list" \/ ~ListOfStrings(steps)
    THEN ValueError(t, "steps must be a non-empty list of strings")
    ELSE LET n == Len(steps.items)
             plan == [plan_id |-> plan_id, title |-> title,
                      steps |-> steps.items,
                      step_statuses |-> Repeat(n, "not_started"),
                      step_notes |-> Repeat(n, ""),
                      step_results |-> Repeat(n, None)]
             t1 == [t EXCEPT !.plans = Append(@, plan), !.current = plan_id]
         IN Formatted(t1, "created", Len(t1.plans))

\* PlanningTool._create_plan
PlanningTool_create_plan(t, plan_id, title, steps) ==
    IF plan_id = NoPlan THEN ValueError(t, "plan_id required")
    ELSE IF PlanAt(t.plans, plan_id) # 0 THEN ValueError(t, "already exists")
    ELSE IF title = "" THEN ValueError(t, "title required")
    ELSE IF steps.kind # "list" \/ ~ListOfStrings(steps)
    THEN ValueError(t, "steps must be a non-empty list of strings")
    ELSE LET n == Len(steps.items)
             plan == [plan_id |-> plan_id, title |-> title,
                      steps |-> steps.items,
                      step_statuses |-> Repeat(n, "not_started"),
                      step_notes |-> Repeat(n, ""),
                      step_results |-> Repeat(n, None)]
             t1 == [t EXCEPT !.plans = Append(@, plan), !.current = plan_id]
         IN Formatted(t1, "created", Len(t1.plans))

\* PlanningTool._add_result
PlanningTool_add_result(t, plan_id, step_index, result) ==
    LET id == Target(t, plan_id)
        k == PlanAt(t.plans, id)
        i == IF step_index = NoneIndex THEN 0 ELSE step_index
    IN IF id = NoPlan \/ k = 0 THEN ValueError(t, "plan not found")
       ELSE IF i < 0 \/ i >= Len(t.plans[k].steps)
       THEN ValueError(t, "invalid step_index")
       ELSE Formatted([t EXCEPT !.plans[k].step_results[i + 1] =
                                   IF result = None THEN "" ELSE result],
                      "result added", k)

PlanningTool_update_plan_Reset(t, plan_id, title, steps) ==
    LET id == Target(t, plan_id)
        k == PlanAt(t.plans, id)
        t1 == IF title # "" THEN [t EXCEPT !.plans[k].title = title] ELSE t
        n == Len(steps.items)
        new == [t1.plans[k] EXCEPT !.steps = steps.items,
                                   !.step_statuses = Repeat(n, "not_started"),
                                   !.step_notes = Repeat(n, ""),
                                   !.step_results = Repeat(n, None)]
    IN IF id = NoPlan \/ k = 0 THEN ValueError(t, "plan not found")
       ELSE IF steps.kind = "none" THEN Formatted(t1, "updated", k)
       ELSE IF ~ListOfStrings(steps)
       THEN ValueError(t1, "steps must be a list of strings")
       ELSE Formatted([t1 EXCEPT !.plans[k] = new], "updated", k)

PlanningTool_update_plan_Stale(t, plan_id, title, steps) ==
    LET id == Target(t, plan_id)
        k == PlanAt(t.plans, id)
        t1 == IF title # "" THEN [t EXCEPT !.plans[k].title = title] ELSE t
        new == [t1.plans[k] EXCEPT !.steps = steps.items]
    IN IF id = NoPlan \/ k = 0 THEN ValueError(t, "plan not found")
       ELSE IF steps.kind = "none" THEN Formatted(t1, "updated", k)
       ELSE IF ~ListOfStrings(steps)
       THEN ValueError(t1, "steps must be a list of strings")
       ELSE Formatted([t1 EXCEPT !.plans[k] = new], "updated", k)

\* PlanningTool._update_plan
PlanningTool_update_plan(t, plan_id, title, steps) ==
    LET id == Target(t, plan_id)
        k == PlanAt(t.plans, id)
        t1 == IF title # "" THEN [t EXCEPT !.plans[k].title = title] ELSE t
        old == t1.plans[k]
        kept(i) == i <= Len(old.steps) /\ steps.items[i] = old.steps[i]
        n == Len(steps.items)
        new == [old EXCEPT
                  !.steps = steps.items,
                  !.step_statuses =
                      [i \in 1..n |-> IF kept(i) THEN old.step_statuses[i]
                                      ELSE "not_started"],
                  !.step_notes =
                      [i \in 1..n |-> IF kept(i) THEN old.step_notes[i]
                                      ELSE ""],
                  !.step_results =
                      [i \in 1..n |-> IF kept(i) /\ i <= Len(old.step_results)
                                      THEN old.step_results[i] ELSE None]]
    IN IF id = NoPlan \/ k = 0 THEN ValueError(t, "plan not found")
       ELSE IF steps.kind = "none" THEN Formatted(t1, "updated", k)
       ELSE IF ~ListOfStrings(steps)
       THEN ValueError(t1, "steps must be a list of strings")
       ELSE Formatted([t1 EXCEPT !.plans[k] = new], "updated", k)

\* PlanningTool._list_plans
PlanningTool_list_plans(t) ==
    [t EXCEPT !.output =
        [msg |-> IF t.plans = <<>> THEN "no plans" ELSE "available plans",
         plan_id |-> NoPlan,
         rows |-> [k \in 1..Len(t.plans) |->
                     [plan_id |-> t.plans[k].plan_id,
                      active |-> t.plans[k].plan_id = t.current,
                      title |-> t.plans[k].title,
                      completed |-> CountOf(t.plans[k], "completed"),
                      total |-> Len(t.plans[k].steps)]]]]

\* PlanningTool._get_plan
PlanningTool_get_plan(t, plan_id) ==
    LET id == Target(t, plan_id)
        k == PlanAt(t.plans, id)
    IN IF id = NoPlan \/ k = 0 THEN ValueError(t, "plan not found")
       ELSE Formatted(t, "", k)

\* PlanningTool._set_active_plan
PlanningTool_set_active_plan(t, plan_id) ==
    IF plan_id = NoPlan THEN ValueError(t, "plan_id required")
    ELSE IF PlanAt(t.plans, plan_id) = 0 THEN ValueError(t, "plan not found")
    ELSE [t EXCEPT !.current = plan_id,
                   !.output = [msg |-> "active", plan_id |-> plan_id,
                               rows |-> <<>>]]

\* PlanningTool._mark_step
PlanningTool_mark_step(t, plan_id, step_index, step_status, step_notes) ==
    LET id == Target(t, plan_id)
        k == PlanAt(t.plans, id)
    IN IF id = NoPlan \/ k = 0 THEN ValueError(t, "plan not found")
       ELSE IF step_index = NoneIndex THEN ValueError(t, "step_index required")
       ELSE IF step_index < 0 \/ step_index >= Len(t.plans[k].steps)
       THEN ValueError(t, "invalid step_index")
       ELSE IF step_status # "" /\ step_status \notin AllStatuses
       THEN ValueError(t, "invalid step_status")
       ELSE LET t1 == IF step_status # ""
                      THEN [t EXCEPT !.plans[k].step_statuses[step_index + 1]
                                        = step_status]
                      ELSE t
                t2 == IF step_notes # ""
                      THEN [t1 EXCEPT !.plans[k].step_notes[step_index + 1]
                                         = step_notes]
                      ELSE t1
            IN Formatted(t2, "step updated", k)

PlanningTool_delete_plan_Dangling(t, plan_id) ==
    LET k == PlanAt(t.plans, plan_id)
        rest == SubSeq(t.plans, 1, k - 1) \o SubSeq(t.plans, k + 1, Len(t.plans))
    IN IF plan_id = NoPlan THEN ValueError(t, "plan_id required")
       ELSE IF k = 0 THEN ValueError(t, "plan not found")
       ELSE [t EXCEPT !.plans = rest,
                      !.output = [msg |-> "deleted", plan_id |-> plan_id,
                                  rows |-> <<>>]]

\* PlanningTool._delete_plan
PlanningTool_delete_plan(t, plan_id) ==
    LET k == PlanAt(t.plans, plan_id)
        rest == SubSeq(t.plans, 1, k - 1) \o SubSeq(t.plans, k + 1, Len(t.plans))
    IN IF plan_id = NoPlan THEN ValueError(t, "plan_id required")
       ELSE IF k = 0 THEN ValueError(t, "plan not found")
       ELSE [t EXCEPT !.plans = rest,
                      !.current = IF t.current # plan_id THEN @
                                  ELSE IF rest # <<>> THEN rest[1].plan_id
                                  ELSE NoPlan,
                      !.output = [msg |-> "deleted", plan_id |-> plan_id,
                                  rows |-> <<>>]]

\* PlanningTool.execute
Execute(t, a) ==
    CASE a.command = "create" ->
           PlanningTool_create_plan(t, a.plan_id, a.title, a.steps)
      [] a.command = "update" ->
           PlanningTool_update_plan(t, a.plan_id, a.title, a.steps)
      [] a.command = "list" -> PlanningTool_list_plans(t)
      [] a.command = "get" -> PlanningTool_get_plan(t, a.plan_id)
      [] a.command = "set_active" -> PlanningTool_set_active_plan(t, a.plan_id)
      [] a.command = "mark_step" ->
           PlanningTool_mark_step(t, a.plan_id, a.step_index, a.step_status,
                                  a.step_notes)
      [] a.command = "delete" -> PlanningTool_delete_plan(t, a.plan_id)
      [] a.command = "add_result" ->
           PlanningTool_add_result(t, a.plan_id, a.step_index, a.step_result)
      [] OTHER -> ValueError(t, "command not recognized")

ToolUnchanged == UNCHANGED <<tool_plans, tool_current_plan_id, tool_last>>

\* ------------------------------------------------------- the CodeAct agent
MaxActions == 2        \* most actions parsed from one response
MaxHubTools == 2       \* most tools one Function Hub search returns
MaxCompletions == 3    \* most LLM completions of one agent

\* A tool descriptor: tool['function']['name'] and tool['id_functionhub'];
\* a built-in descriptor has no id_functionhub, written 0.
ToolDescriptor(name, id) == [name |-> name, id_functionhub |-> id]

\* self.tools: the built-in descriptors, their names pairwise distinct
BuiltInTools == <<ToolDescriptor("execute_bash", 0), ToolDescriptor("finish", 0)>>

HubNames == {"finish", "search"}
HubIds == 1..2
HubTools == {ToolDescriptor(n, i) : n \in HubNames, i \in HubIds}

\* what functionhub_runner.search_with_rerank may return
HubResults == UNION {[1..k -> HubTools] : k \in 0..MaxHubTools}

\* state.get_last_user_message(): None or a message with this content
LatestUserMessages == {None, "/exit", " /exit\n", "exit", "hello"}

\* content.strip()
Strip(content) == IF content = " /exit\n" THEN "/exit" ELSE content

AgentFinishAction == [kind |-> "finish", response |-> 0, index |-> 0]

\* the index-th action parsed from the response-th completion
ParsedAction(response, index) == [kind |-> "parsed", response |-> response, index |-> index]

\* codeact_function_calling.response_to_actions: one action per tool call
\* of the response, at least one
ResponseToActions(response) == [i \in 1..response.len |-> ParsedAction(response.n, i)]

\* tool_names
ToolNames(tools) == [k \in 1..Len(tools) |-> tools[k].name]

\* tool_names.count(name)
NameCount(name, names) == Cardinality({k \in 1..Len(names) : names[k] = name})

\* duplicates
Duplicates(names) == SelectSeq(names, LAMBDA n : NameCount(n, names) > 1)

\* the loop that builds combined_tools_unique: a tool is appended unless its
\* name is already in combined_tools_unique_names
RECURSIVE CombinedToolsUnique(_, _)
CombinedToolsUnique(tools, unique) ==
    IF tools = <<>> THEN unique
    ELSE CombinedToolsUnique(
           Tail(tools),
           IF Head(tools).name \in {unique[k].name : k \in 1..Len(unique)}
           THEN unique
           ELSE Append(unique, Head(tools)))

\* MUTANT of CombinedTools: the lists are concatenated and nothing is dropped
CombinedTools_Concatenated(tools, function_hub_tools) == tools \o function_hub_tools

\* combined_tools as passed to the LLM
CombinedTools(tools, function_hub_tools) ==
    LET combined == tools \o function_hub_tools
    IN  IF Duplicates(ToolNames(combined)) # <<>>
        THEN CombinedToolsUnique(combined, <<>>)
        ELSE combined

\* function_hub_tools_names_to_tool_id: a dict comprehension over ALL the
\* hub tools, so a later tool overwrites an earlier one of the same name
NamesToToolId(function_hub_tools) ==
    LET hub == function_hub_tools
        LastOf(n) == CHOOSE k \in 1..Len(hub) :
                        /\ hub[k].name = n
                        /\ \A j \in (k + 1)..Len(hub) : hub[j].name # n
    IN  [n \in {hub[k].name : k \in 1..Len(hub)} |-> hub[LastOf(n)].id_functionhub]

\* the agent as CodeActAgent.step and reset see it
CodeActAgent == [pending_actions |-> pending_actions, completions |-> completions]

NoTools == <<>>

\* what one call of step() did: the agent afterwards, the action returned,
\* whether the /exit test was reached, whether llm.completion was called, and
\* the tools and the name -> id map the call built
Stepped(a, pending, n, returned, exit, llm, tools, ids) ==
    [pending_actions |-> pending, completions |-> n, returned |-> returned,
     checked_exit |-> exit, called_llm |-> llm, tools |-> tools, ids |-> ids]

\* CodeActAgent.reset
CodeActAgent_reset(a) == [a EXCEPT !.pending_actions = <<>>]

\* MUTANT of CodeActAgent_step: the agent asks the LLM on every step
CodeActAgent_step_Eager(a, latest_user_message, function_hub_tools, len) ==
    LET actions == ResponseToActions([n |-> a.completions + 1, len |-> len])
        pending == a.pending_actions \o actions
    IN  Stepped(a, Tail(pending), a.completions + 1, Head(pending), TRUE, TRUE,
                CombinedTools(BuiltInTools, function_hub_tools),
                NamesToToolId(function_hub_tools))

\* CodeActAgent.step; len is the number of tool calls in the LLM's response
CodeActAgent_step(a, latest_user_message, function_hub_tools, len) ==
    IF a.pending_actions # <<>>
    THEN Stepped(a, Tail(a.pending_actions), a.completions,
                 Head(a.pending_actions), FALSE, FALSE, NoTools, <<>>)
    ELSE IF latest_user_message # None /\ Strip(latest_user_message) = "/exit"
    THEN Stepped(a, <<>>, a.completions, AgentFinishAction, TRUE, FALSE,
                 NoTools, <<>>)
    ELSE LET combined_tools == CombinedTools(BuiltInTools, function_hub_tools)
             ids == NamesToToolId(function_hub_tools)
             actions == ResponseToActions([n |-> a.completions + 1, len |-> len])
             pending == a.pending_actions \o actions
         IN  Stepped(a, Tail(pending), a.completions + 1, Head(pending), TRUE,
                     TRUE, combined_tools, ids)

NoAgentCall ==
    [op |-> "none", message |-> None, hub |-> <<>>, pre |-> <<>>,
     returned |-> AgentFinishAction, checked_exit |-> FALSE,
     called_llm |-> FALSE, tools |-> NoTools, ids |-> <<>>, reset_at |-> 0]

AgentUnchanged == UNCHANGED <<pending_actions, completions, agent_last>>

\* --------------------------------------------------- the Function Hub runner
MaxResponses == 2      \* most typed results of one execution

\* A string is the sequence of its pieces; the pieces of a content are
\* characters, the pieces of a marker its parts.
Newline == "\n"
Contents == {<<>>, <<"x">>, <<"y">>}
Descriptions == {"", "d"}

\* ResponseType
ResponseTypes == {"text", "image_url", "video_url", "audio_url", "image", "video", "audio", "blob", "error"}

\* BaseFunctionHubResponse
BaseFunctionHubResponse == [response_type : ResponseTypes, content : Contents, description : Descriptions]

\* f"[{kind}: {description or default}]"
Marker(kind, description, default) == <<"[", kind, ": ", IF description # "" THEN description ELSE default, "]">>

\* response.response_type.value.capitalize()
Capitalize(value) == CASE value = "image" -> "Image" [] value = "video" -> "Video" [] OTHER -> "Audio"

\* '\n'.join(strings)
RECURSIVE Join(_)
Join(strings) ==
    IF strings = <<>> THEN <<>>
    ELSE IF Len(strings) = 1 THEN strings[1]
    ELSE strings[1] \o <<Newline>> \o Join(Tail(strings))

\* the lists and strings of run() before the loop
NoContents ==
    [text_contents |-> <<>>, image_urls |-> <<>>, video_urls |-> <<>>,
     audio_urls |-> <<>>, blob |-> <<>>, error |-> <<>>, raised |-> FALSE]

\* one pass of the loop of run(); a response of type image, video or audio
\* without description evaluates response.type, which no response has
Process(o, response) ==
    LET text(marker) == Append(o.text_contents, marker)
        d == response.description
    IN  CASE o.raised -> o
          [] response.response_type = "error" ->
               [o EXCEPT !.error = (IF o.error # <<>> THEN o.error \o <<Newline>> ELSE <<>>) \o response.content]
          [] response.response_type = "text" ->
               [o EXCEPT !.text_contents = text(response.content)]
          [] response.response_type = "image_url" ->
               [o EXCEPT !.image_urls = Append(@, response.content),
                         !.text_contents = text(Marker("Image", d, "Generated image"))]
          [] response.response_type = "video_url" ->
               [o EXCEPT !.video_urls = Append(@, response.content),
                         !.text_contents = text(Marker("Video", d, "Generated video"))]
          [] response.response_type = "audio_url" ->
               [o EXCEPT !.audio_urls = Append(@, response.content),
                         !.text_contents = text(Marker("Audio", d, "Generated audio"))]
          [] response.response_type = "blob" ->
               [o EXCEPT !.blob = response.content,
                         !.text_contents = text(Marker("File", d, "Generated file"))]
          [] OTHER ->
               IF d = ""
               THEN [o EXCEPT !.blob = IF o.blob = <<>> THEN response.content ELSE @,
                              !.raised = TRUE]
               ELSE [o EXCEPT !.blob = IF o.blob = <<>> THEN response.content ELSE @,
                              !.text_contents = text(Marker(Capitalize(response.response_type), d, ""))]

RECURSIVE Processed(_, _)
Processed(o, responses) ==
    IF responses = <<>> THEN o
    ELSE Processed(Process(o, Head(responses)), Tail(responses))

\* FunctionHubRunner.run, given what execute_function returned: the
\* FunctionHubObservation, or raised = TRUE for the AttributeError
FunctionHubRunner_run(responses) ==
    LET o == Processed(NoContents, responses)
    IN  [function_name |-> IF responses # <<>> THEN responses[1].description ELSE "",
         text_content |-> Join(o.text_contents),
         content |-> Join(o.text_contents),
         image_urls |-> o.image_urls, video_urls |-> o.video_urls,
         audio_urls |-> o.audio_urls, blob |-> o.blob, error |-> o.error,
         raised |-> o.raised]

NoRun == [ran |-> FALSE, responses |-> <<>>, observation |-> FunctionHubRunner_run(<<>>)]

HubUnchanged == UNCHANGED hub_last

\* ------------------------------------------------------ the planning agent
MaxRuns == 2           \* calls of PlanningAgent.run on one agent

\* self.active_plan_id, f'plan_{int(time.time())}'
PlanId == "p1"

\* the steps of the default plan
DefaultSteps == <<"Analyze the request", "Perform tasks", "Check the result">>

\* what self.llm.completion does: it raises, or answers with a content
Completions == {[raised |-> TRUE, content |-> ""], [raised |-> FALSE, content |-> ""], [raised |-> FALSE, content |-> "r"]}

\* a text that is not a formatted plan
Text(msg) == [msg |-> msg, plan_id |-> NoPlan, rows |-> <<>>]

\* the tool after a command returned or raised
Returned(t) == [t EXCEPT !.error = "", !.output = NoOutput]

\* planning_tool.execute(command='get', plan_id=self.active_plan_id)
GetPlan(t) == Execute(Returned(t), Args("get", PlanId, "", NoSteps, NoneIndex, "", "", None))

\* PlanningAgent._create_initial_plan: the tool afterwards and the text
\* returned
PlanningAgent_create_initial_plan(t, completion) ==
    LET steps == [kind |-> "list", items |-> DefaultSteps]
        create == Args("create", PlanId, "Plan for", steps, NoneIndex, "", "", None)
        t1 == IF PlanAt(t.plans, PlanId) = 0 THEN Execute(t, create) ELSE t
        t2 == GetPlan(t1)
    IN  IF completion.raised
        THEN [tool |-> t, result |-> Text("Error creating plan")]
        ELSE IF t1.error # ""
        THEN [tool |-> Returned(t1), result |-> Text("Error creating initial plan")]
        ELSE IF t2.error # ""
        THEN [tool |-> Returned(t2), result |-> Text("Error getting plan")]
        ELSE [tool |-> Returned(t2), result |-> t2.output]

\* the status _get_current_step_info reads for the step at position k
StatusAt(plan, k) == IF k > Len(plan.step_statuses) THEN "not_started" ELSE plan.step_statuses[k]

\* PlanStepStatus.get_active_statuses
ActiveStatuses == {"not_started", "in_progress"}

\* the fallback of _get_current_step_info and _mark_step_completed: the
\* status is written into the stored list, which is padded first
WriteStatus(t, k, i, status) ==
    [t EXCEPT !.plans[k].step_statuses =
        [PadTo(i + 1, @, "not_started") EXCEPT ![i + 1] = status]]

\* PlanningAgent._get_current_step_info: the tool afterwards and the index
\* of the first step that is not started or in progress, NoneIndex if none
PlanningAgent_get_current_step_info(t) ==
    LET k == PlanAt(t.plans, PlanId)
        plan == t.plans[k]
        active == {j \in 1..Len(plan.steps) : StatusAt(plan, j) \in ActiveStatuses}
        i == (CHOOSE j \in active : \A h \in active : j <= h) - 1
        t1 == Execute(Returned(t), Args("mark_step", PlanId, "", NoSteps, i, "in_progress", "", None))
    IN  IF k = 0 THEN [tool |-> t, index |-> NoneIndex]
        ELSE IF active = {} THEN [tool |-> t, index |-> NoneIndex]
        ELSE IF t1.error # ""
        THEN [tool |-> WriteStatus(Returned(t1), k, i, "in_progress"), index |-> i]
        ELSE [tool |-> Returned(t1), index |-> i]

\* PlanningAgent._execute_step: the tool afterwards and the result
PlanningAgent_execute_step(t, completion) ==
    [tool |-> Returned(GetPlan(t)),
     result |-> IF completion.raised THEN "Error executing step" ELSE completion.content]

\* _mark_step_completed as it would be if it left the plan as it was
PlanningAgent_mark_step_completed_Unmarked(t, index, step_result) ==
    t

\* PlanningAgent._mark_step_completed
PlanningAgent_mark_step_completed(t, index, step_result) ==
    LET k == PlanAt(t.plans, PlanId)
        t1 == Execute(Returned(t), Args("mark_step", PlanId, "", NoSteps, index, "completed", "", None))
        t2 == Execute(Returned(t1), Args("add_result", PlanId, "", NoSteps, index, "", "", step_result))
        failed == IF t1.error # "" THEN t1 ELSE t2
        t3 == WriteStatus(Returned(failed), k, index, "completed")
    IN  IF index = NoneIndex THEN t
        ELSE IF t1.error = "" /\ t2.error = "" THEN Returned(t2)
        ELSE IF k = 0 THEN Returned(failed)
        ELSE [t3 EXCEPT !.plans[k].step_results =
                [PadTo(index + 1, @, None) EXCEPT ![index + 1] = step_result]]

\* PlanningAgent._finalize_plan
PlanningAgent_finalize_plan(t, completion) ==
    [tool |-> Returned(GetPlan(t)),
     result |-> IF completion.raised THEN Text("The plan has been completed, but an error occurred")
                ELSE Text(completion.content)]

\* a dictionary yielded by run()
Yielded(mtype, content) == [mtype |-> mtype, content |-> content]
NoUpdate == Yielded("none", Text(""))

\* A new agent.  pc is where run() stands: "idle" when it is not running,
\* else the yield it is suspended at; had_plan tells whether a plan was
\* stored under the agent's id when run() was called.
NewPlanningAgent ==
    [pc |-> "idle", current_step_index |-> NoneIndex, update |-> NoUpdate,
     had_plan |-> FALSE, runs |-> 0]

\* the head of the loop of run(), up to its yield
LoopHead(a, t) ==
    LET info == PlanningAgent_get_current_step_info(t)
        current_plan == GetPlan(info.tool)
    IN  [agent |-> [a EXCEPT !.pc = "loop", !.current_step_index = info.index,
                             !.update = Yielded("planning", current_plan.output)],
         tool |-> Returned(current_plan)]

PlannerUnchanged == UNCHANGED planning_agent

\* ------------------------------------- several controllers in a process
MaxSessions == 2           \* PlanControllers constructed in the process
MaxSessionDelegates == 1   \* AssignTask events a session handles
MaxSessionEvents == 2      \* other events a session receives

Sessions == 1..MaxSessions
Keys == PlanIds \X (0..(MaxTasks - 1))

\* no AgentController
NoController == [session |-> 0, d |-> 0]

NoReceipt ==
    [op |-> "", session |-> 0, own_running |-> FALSE, should_step |-> FALSE,
     appended |-> FALSE, stepped |-> FALSE]

\* a PlanController after __init__: no delegate, an empty history
NewSession == [delegates |-> <<>>, history |-> <<>>, steps |-> 0, events |-> 0]

\* the class PlanController, whose attribute task_controllers is one dict
\* made when the class is defined, and the controllers constructed from it
NewSessions ==
    [task_controllers |-> [k \in Keys |-> NoController],
     of |-> [s \in Sessions |-> NewSession],
     last |-> NoReceipt]

SessionsUnchanged == UNCHANGED sessions

\* nothing outside the controller changes
ComponentsUnchanged ==
    /\ ToolUnchanged
    /\ AgentUnchanged
    /\ HubUnchanged
    /\ PlannerUnchanged
    /\ SessionsUnchanged

\* ------------------------------------------------------- controller frame
\* The controller's fields gathered in one record, so that a handler is a
\* function from frame to frame.  out: the events the handler has published,
\* next: the id of the next event, exc: the exception that ended the handler,
\* step: should_step held and _step ran, attempted: _step passed its early
\* returns, planner: _step called planning_agent.step, stop: the value
\* _handle_traffic_control returned.
Cur ==
    [agent_state |-> agent_state, tcs |-> traffic_control_state,
     iteration |-> iteration, max_iterations |-> max_iterations,
     max_budget |-> max_budget_per_task, llm_cost |-> llm_cost,
     local_cost |-> local_cost, metrics_cost |-> metrics_cost,
     pending |-> pending_action, plans |-> plans, active |-> active_plan_id,
     cti |-> current_task_index, tc |-> task_controllers,
     delegates |-> delegates, history |-> history,
     truncation_id |-> truncation_id, start_id |-> start_id, out |-> <<>>,
     next |-> next_id, step |-> FALSE, attempted |-> FALSE, exc |-> "",
     planner |-> FALSE, stop |-> FALSE]

\* event_stream.add_event: the stream assigns the id
Publish(c, e) ==
    [c EXCEPT !.out = Append(@, [e EXCEPT !.id = c.next]), !.next = @ + 1]

Raise(c, what) == [c EXCEPT !.exc = what]

\* ------------------------------------------------------------------ plans
TaskStatuses == {"NOT_STARTED", "IN_PROGRESS", "COMPLETED", "BLOCKED"}
NoResult == -1

\* Plan.from_create_plan_action: n tasks, every status NOT_STARTED, no result
NewPlan(n) == [i \in 1..n |-> [status |-> "NOT_STARTED", result |-> NoResult]]

HasPlan(c, p) == p \in PlanIds /\ c.plans[p] # <<>>

IsAllTaskResolvedIn_Started(tasks) ==
    \A k \in 1..Len(tasks) : tasks[k].status # "NOT_STARTED"

IsAllTaskResolvedIn(tasks) ==
    \A k \in 1..Len(tasks) : tasks[k].status \in {"COMPLETED", "BLOCKED"}

\* PlanController._is_all_task_resolved (the active plan exists)
IsAllTaskResolved(c) == IsAllTaskResolvedIn(c.plans[c.active])

\* PlanController._is_awaiting_for_task_resolving
IsAwaitingForTaskResolving(c) ==
    \E p \in c.tc.plans : \E i \in 0..(MaxTasks - 1) :
        /\ c.tc.entries[<<p, i>>] # 0
        /\ c.delegates[c.tc.entries[<<p, i>>]].state = "RUNNING"

\* ------------------------------------------------------------ agent state
UpdateStateAfterStep(c) == [c EXCEPT !.local_cost = c.llm_cost]

MergeMetrics(c) == [c EXCEPT !.metrics_cost = @ + c.local_cost]

\* PlanController._reset
Reset(c) ==
    LET p == c.pending
        found == \E k \in 1..Len(c.history) :
                    IsObservation(c.history[k]) /\ c.history[k].tcm = p.tcm
        c1 == IF p.kind # "None" /\ ~found
              THEN Publish(c, ErrorObservation(p.id, p.tcm))
              ELSE c
    IN [c1 EXCEPT !.pending = NoEvent]

\* the branch of set_agent_state_to taken on a resume from PAUSED while
\* traffic control is THROTTLING
ResumeFromThrottling(c) ==
    LET c1 == [c EXCEPT !.tcs = "PAUSED"]
        c2 == IF ~headless_mode /\ c1.iteration >= c1.max_iterations
              THEN [c1 EXCEPT !.max_iterations = @ + initial_max_iterations]
              ELSE c1
    IN IF c2.max_budget # -1 /\ c2.metrics_cost >= c2.max_budget
       THEN [c2 EXCEPT !.max_budget = @ + initial_max_budget_per_task]
       ELSE c2

SetAgentStateTo_Always(c, new_state) ==
      LET c1 ==
            IF new_state \in {"STOPPED", "ERROR"}
            THEN Reset(MergeMetrics(UpdateStateAfterStep(c)))
            ELSE IF /\ new_state = "RUNNING"
                    /\ c.agent_state = "PAUSED"
                    /\ c.tcs = "THROTTLING"
            THEN ResumeFromThrottling(c)
            ELSE IF /\ c.pending.kind # "None"
                    /\ new_state \in {"USER_CONFIRMED", "USER_REJECTED"}
            THEN LET conf == IF new_state = "USER_CONFIRMED"
                             THEN "CONFIRMED" ELSE "REJECTED"
                     p == [c.pending EXCEPT !.status = conf, !.id = c.next]
                 IN Publish([c EXCEPT !.pending = p], p)
            ELSE c
      IN Publish([c1 EXCEPT !.agent_state = new_state],
                 AgentStateChangedObservation(new_state))

\* PlanController.set_agent_state_to
SetAgentStateTo(c, new_state) ==
    IF new_state = c.agent_state THEN c
    ELSE
      LET c1 ==
            IF new_state \in {"STOPPED", "ERROR"}
            THEN Reset(MergeMetrics(UpdateStateAfterStep(c)))
            ELSE IF /\ new_state = "RUNNING"
                    /\ c.agent_state = "PAUSED"
                    /\ c.tcs = "THROTTLING"
            THEN ResumeFromThrottling(c)
            ELSE IF /\ c.pending.kind # "None"
                    /\ new_state \in {"USER_CONFIRMED", "USER_REJECTED"}
            THEN LET conf == IF new_state = "USER_CONFIRMED"
                             THEN "CONFIRMED" ELSE "REJECTED"
                     p == [c.pending EXCEPT !.status = conf, !.id = c.next]
                 IN Publish([c EXCEPT !.pending = p], p)
            ELSE c
      IN Publish([c1 EXCEPT !.agent_state = new_state],
                 AgentStateChangedObservation(new_state))

\* PlanController._react_to_exception
ReactToException(c, e) ==
    LET c1 == SetAgentStateTo(c, "ERROR")
    IN IF status_callback /\ e = "RateLimitError"
       THEN SetAgentStateTo(c1, "RATE_LIMITED")
       ELSE c1

\* PlanController._handle_traffic_control
HandleTrafficControl(c) ==
    IF c.tcs = "PAUSED"
    THEN [c EXCEPT !.tcs = "NORMAL", !.stop = FALSE]
    ELSE [ReactToException([c EXCEPT !.tcs = "THROTTLING"], "RuntimeError")
            EXCEPT !.stop = TRUE]

\* ---------------------------------------------------------------- handlers
\* PlanController._handle_message_action
HandleMessageAction(c, action) ==
    IF action.source = "USER"
    THEN LET c1 == IF ~headless_mode
                   THEN [c EXCEPT
                           !.max_iterations = c.iteration + initial_max_iterations,
                           !.tcs = IF @ \in {"THROTTLING", "PAUSED"}
                                   THEN "NORMAL" ELSE @]
                   ELSE c
             recall == [RecallAction EXCEPT !.id = c1.next]
             c2 == Publish([c1 EXCEPT !.pending = recall], recall)
         IN IF c2.agent_state # "RUNNING"
            THEN SetAgentStateTo(c2, "RUNNING")
            ELSE c2
    ELSE IF action.source = "AGENT" /\ action.wait
    THEN SetAgentStateTo(c, "AWAITING_USER_INPUT")
    ELSE c

\* _handle_action, the MarkTaskAction branch
HandleMarkTask(c, action) ==
    IF action.status = "IN_PROGRESS"
    THEN LET c1 == [c EXCEPT !.cti = action.task]
         IN IF ~HasPlan(c1, c1.active) THEN Raise(c1, "KeyError")
            ELSE IF action.task >= Len(c1.plans[c1.active])
            THEN Raise(c1, "IndexError")
            ELSE Publish(c1, AssignTaskAction(c1.active, action.task,
                                              action.task))
    ELSE c

NewDelegate_Remaining(c, action) ==
    [sid |-> action.n, plan |-> action.plan, task |-> action.task,
     max_iterations |-> (c.max_iterations - c.iteration) \div 2,
     headless |-> FALSE, state |-> "LOADING"]

\* AgentController(sid=delegate_id, max_iterations=..., headless_mode=False)
NewDelegate(c, action) ==
    [sid |-> action.n, plan |-> action.plan, task |-> action.task,
     max_iterations |-> c.max_iterations \div 2, headless |-> FALSE,
     state |-> "LOADING"]

\* PlanController._assign_task_to_the_delegate
AssignTaskToTheDelegate(c, action) ==
    LET d == Len(c.delegates) + 1
        c1 == [c EXCEPT
                 !.tc.plans = @ \cup {action.plan},
                 !.delegates = Append(@, NewDelegate(c, action)),
                 !.tc.entries[<<action.plan, action.task>>] = d]
    IN IF ~HasPlan(c1, action.plan) THEN Raise(c1, "KeyError")
       ELSE IF action.task >= Len(c1.plans[action.plan])
       THEN Raise(c1, "IndexError")
       ELSE Publish(c1, MessageAction("USER", FALSE, action.plan,
                                      action.task, 0))

\* _handle_action, the AgentFinishAction branch "from delegate agent"
CompleteCurrentTask(c, action) ==
    LET p == c.active
        i == c.cti
        n == Len(c.plans[p])
    IN IF i >= n THEN Raise(c, "IndexError")
       ELSE
         LET c1 == Publish([c EXCEPT !.plans[p][i + 1].status = "COMPLETED"],
                           MarkTaskAction(p, i, "COMPLETED"))
             c2 == [c1 EXCEPT !.plans[p][i + 1].result = action.n]
         IN IF p \in c2.tc.plans /\ c2.tc.entries[<<p, i>>] = 0
            THEN Raise(c2, "KeyError")
            ELSE
              LET c3 == IF p \in c2.tc.plans
                        THEN [c2 EXCEPT !.tc.entries[<<p, i>>] = 0]
                        ELSE c2
              IN IF i + 1 < n
                 THEN Publish([c3 EXCEPT !.cti = i + 1,
                                 !.plans[p][i + 2].status = "IN_PROGRESS"],
                              MarkTaskAction(p, i + 1, "IN_PROGRESS"))
                 ELSE Publish(c3, MessageAction("USER", FALSE, NoPlan, -1, 0))

\* _handle_action, the AgentFinishAction branch
HandleAgentFinish(c, action) ==
    IF ~HasPlan(c, c.active) THEN Raise(c, "KeyError")
    ELSE IF IsAllTaskResolved(c)
    THEN SetAgentStateTo(MergeMetrics(c), "FINISHED")
    ELSE CompleteCurrentTask(c, action)

HandleCreatePlan_NoMark(c, action) ==
    LET p == action.plan
        c1 == [c EXCEPT !.plans[p] = NewPlan(action.n), !.active = p]
        c2 == [c1 EXCEPT !.cti = 0]
    IN Publish(c2, MarkTaskAction(p, c2.cti, "IN_PROGRESS"))

\* _handle_action, the CreatePlanAction branch, with _create_plan
HandleCreatePlan(c, action) ==
    LET p == action.plan
        c1 == [c EXCEPT !.plans[p] = NewPlan(action.n), !.active = p]
        c2 == [c1 EXCEPT !.cti = 0, !.plans[p][1].status = "IN_PROGRESS"]
    IN Publish(c2, MarkTaskAction(p, c2.cti, "IN_PROGRESS"))

\* PlanController._handle_action
HandleAction(c, action) ==
    CASE action.kind = "ChangeAgentState" -> SetAgentStateTo(c, action.status)
      [] action.kind = "Message" -> HandleMessageAction(c, action)
      [] action.kind = "MarkTask" -> HandleMarkTask(c, action)
      [] action.kind = "AssignTask" -> AssignTaskToTheDelegate(c, action)
      [] action.kind = "AgentFinish" -> HandleAgentFinish(c, action)
      [] action.kind = "AgentReject" ->
            SetAgentStateTo(MergeMetrics(c), "REJECTED")
      [] action.kind = "CreatePlan" -> HandleCreatePlan(c, action)
      [] OTHER -> c

HandleObservation_Eager(c, observation) ==
    IF c.pending.kind # "None" /\ c.pending.id = observation.cause
    THEN LET c1 == [c EXCEPT !.pending = NoEvent]
         IN IF c1.agent_state = "USER_CONFIRMED"
            THEN SetAgentStateTo(c1, "RUNNING")
            ELSE IF c1.agent_state = "USER_REJECTED"
            THEN SetAgentStateTo(c1, "AWAITING_USER_INPUT")
            ELSE c1
    ELSE IF observation.kind = "Error" /\ c.agent_state = "ERROR"
    THEN MergeMetrics(c)
    ELSE c

\* PlanController._handle_observation
HandleObservation(c, observation) ==
    IF c.pending.kind # "None" /\ c.pending.id = observation.cause
    THEN IF c.agent_state = "AWAITING_USER_CONFIRMATION" THEN c
         ELSE LET c1 == [c EXCEPT !.pending = NoEvent]
              IN IF c1.agent_state = "USER_CONFIRMED"
                 THEN SetAgentStateTo(c1, "RUNNING")
                 ELSE IF c1.agent_state = "USER_REJECTED"
                 THEN SetAgentStateTo(c1, "AWAITING_USER_INPUT")
                 ELSE c1
    ELSE IF observation.kind = "Error" /\ c.agent_state = "ERROR"
    THEN MergeMetrics(c)
    ELSE c

ShouldStep_NoRecall(c, event) ==
    IF IsAction(event)
    THEN IF event.kind \in {"CreatePlan", "MarkTask"} THEN FALSE
         ELSE IF event.kind = "Message" /\ event.source = "USER" THEN TRUE
         ELSE event.kind = "Message" /\ c.agent_state # "AWAITING_USER_INPUT"
    ELSE IF IsObservation(event)
    THEN event.kind \notin {"AgentStateChanged", "NullObs"}
    ELSE FALSE

\* PlanController.should_step
ShouldStep_CauseOnly(c, event) ==
    IF IsAction(event)
    THEN IF event.kind \in {"CreatePlan", "MarkTask"} THEN FALSE
         ELSE IF event.kind = "Message" /\ event.source = "USER" THEN TRUE
         ELSE event.kind = "Message" /\ c.agent_state # "AWAITING_USER_INPUT"
    ELSE IF IsObservation(event)
    THEN event.cause > 0 /\ event.kind \notin {"AgentStateChanged", "NullObs"}
    ELSE FALSE

ShouldStep(c, event) ==
    IF IsAction(event)
    THEN IF event.kind \in {"CreatePlan", "MarkTask"} THEN FALSE
         ELSE IF event.kind = "Message" /\ event.source = "USER" THEN TRUE
         ELSE event.kind = "Message" /\ c.agent_state # "AWAITING_USER_INPUT"
    ELSE IF IsObservation(event)
    THEN IF event.kind = "NullObs" /\ event.cause > 0 THEN TRUE
         ELSE event.kind \notin {"AgentStateChanged", "NullObs"}
    ELSE FALSE

\* PlanController.filter_out and PlanController.pass_type
FilterOut == {"NullObs", "ChangeAgentState", "AgentStateChanged", "MarkTask"}
PassType == {"AgentFinish", "AssignTask"}

\* ------------------------------------------------------- history window
AgentCondensationObservation ==
    Ev("AgentCondensation", "AGENT", -1, NoPlan, -1, "", -1, FALSE, 0, 0)

\* the first MessageAction of the user in events, NoEvent if there is none
FirstUserMessage(events) ==
    LET ks == {k \in 1..Len(events) :
                 events[k].kind = "Message" /\ events[k].source = "USER"}
    IN IF ks = {} THEN NoEvent
       ELSE events[CHOOSE k \in ks : \A j \in ks : k <= j]

\* where the loop over the kept events stops: the first event that is
\* neither a MessageAction nor an action of the user, 0 if there is none
WindowStop(kept) ==
    LET ks == {k \in 1..Len(kept) :
                 ~(\/ kept[k].kind = "Message"
                   \/ IsAction(kept[k]) /\ kept[k].source = "USER")}
    IN IF ks = {} THEN 0 ELSE CHOOSE k \in ks : \A j \in ks : k <= j

\* PlanController._apply_conversation_window: the frame with the window as
\* history, and truncation_id and start_id as the method sets them
ApplyConversationWindow(c) ==
    LET events == c.history
        first_user_msg == FirstUserMessage(events)
        half == Len(events) \div 2
        mid_point == IF half > 1 THEN half ELSE 1
        cut == SubSeq(events, 1, mid_point)
        kept0 == SubSeq(events, mid_point + 1, Len(events))
        i == WindowStop(kept0)
        paired == i # 0 /\ IsObservation(kept0[i])
                  /\ kept0[i].cause \notin {-1, 0}
        ms == {k \in 1..Len(cut) :
                 IsAction(cut[k]) /\ cut[k].id = kept0[i].cause}
        kept1 == IF ~paired THEN kept0
                 ELSE IF ms # {}
                 THEN <<cut[CHOOSE k \in ms : \A j \in ms : j <= k]>> \o kept0
                 ELSE Tail(kept0)
        kept2 == IF /\ first_user_msg # NoEvent
                    /\ \A k \in 1..Len(kept1) : kept1[k] # first_user_msg
                 THEN <<first_user_msg>> \o kept1
                 ELSE kept1
    IN IF events = <<>> THEN c
       ELSE [c EXCEPT !.history = kept2,
                      !.truncation_id = IF kept1 # <<>> THEN kept1[1].id ELSE @,
                      !.start_id = IF first_user_msg # NoEvent
                                   THEN first_user_msg.id ELSE @]

HandleLongContextError_Silent(c) ==
    LET c1 == ApplyConversationWindow(c)
    IN IF c1.history # <<>>
       THEN [c1 EXCEPT !.start_id = c1.history[1].id]
       ELSE c1

\* PlanController._handle_long_context_error
HandleLongContextError(c) ==
    LET c1 == ApplyConversationWindow(c)
        c2 == IF c1.history # <<>>
              THEN [c1 EXCEPT !.start_id = c1.history[1].id]
              ELSE c1
    IN Publish(c2, AgentCondensationObservation)

\* event_stream.get_events(start_id, end_id, filter_out_type=filter_out,
\* filter_hidden=True) with end_id the latest id: no event here is hidden
GetEvents(events, from) ==
    SelectSeq(events, LAMBDA e : e.id >= from /\ e.kind \notin FilterOut)

\* PlanController._init_history on the events of the stream
InitHistory(c, events) ==
    LET start == IF c.start_id >= 0 THEN c.start_id ELSE 0
        end_id == Len(events) - 1
        truncated == c.truncation_id > 0
        first_user_msg == FirstUserMessage(GetEvents(events, start))
        found == IF truncated /\ first_user_msg # NoEvent
                 THEN <<first_user_msg>> ELSE <<>>
        rest == IF truncated THEN c.truncation_id ELSE start
    IN IF start > end_id + 1
       THEN [c EXCEPT !.history = <<>>]
       ELSE [c EXCEPT !.history = found \o GetEvents(events, rest),
                      !.start_id = rest]

\* -------------------------------------------------------------------- step
\* What planning_agent.step returns or raises: the planner LLM's choice.
PlannerResult(kind, wait, plan, n) ==
    [kind |-> kind, wait |-> wait, plan |-> plan, n |-> n]

CreatePlanResults ==
    {PlannerResult("CreatePlan", FALSE, p, n) : p \in PlanIds, n \in 1..MaxTasks}

PlannerStep_Fatal(c, r) ==
    LET c0 == [c EXCEPT !.iteration = @ + 1, !.planner = TRUE,
                 !.llm_cost = IF r.kind \in {"OtherError", "RateLimit",
                                             "ContextWindow"}
                              THEN @ ELSE @ + 1]
    IN CASE r.kind = "ModelError" -> ReactToException(c0, "RuntimeError")
         [] r.kind = "OtherError" -> ReactToException(c0, "RuntimeError")
         [] r.kind = "RateLimit" -> ReactToException(c0, "RateLimitError")
         [] r.kind = "ContextWindow" ->
              IF enable_history_truncation
              THEN HandleLongContextError(c0)
              ELSE ReactToException(c0, "LLMContextWindowExceedError")
         [] r.kind = "Null" -> UpdateStateAfterStep(c0)
         [] OTHER ->
              LET a0 == Ev(r.kind, "AGENT", -1, r.plan, -1, "", r.n, r.wait,
                           0, 0)
                  awaiting == /\ Runnable(a0)
                              /\ confirmation_mode
                              /\ a0.kind = "CmdRun"
                  a1 == IF awaiting
                        THEN [a0 EXCEPT !.status = "AWAITING_CONFIRMATION"]
                        ELSE a0
                  c1 == IF awaiting
                        THEN SetAgentStateTo(c0, "AWAITING_USER_CONFIRMATION")
                        ELSE c0
                  a2 == [a1 EXCEPT !.id = c1.next,
                           !.tcm = IF Runnable(a1) THEN c1.next ELSE 0]
                  c2 == IF Runnable(a2) THEN [c1 EXCEPT !.pending = a2]
                        ELSE c1
              IN UpdateStateAfterStep(Publish(c2, a2))

\* _step from update_state_before_step on: the planner is called and its
\* action published
PlannerStep(c, r) ==
    LET c0 == [c EXCEPT !.iteration = @ + 1, !.planner = TRUE,
                 !.llm_cost = IF r.kind \in {"OtherError", "RateLimit",
                                             "ContextWindow"}
                              THEN @ ELSE @ + 1]
    IN CASE r.kind = "ModelError" -> Publish(c0, ErrorObservation(-1, 0))
         [] r.kind = "OtherError" -> ReactToException(c0, "RuntimeError")
         [] r.kind = "RateLimit" -> ReactToException(c0, "RateLimitError")
         [] r.kind = "ContextWindow" ->
              IF enable_history_truncation
              THEN HandleLongContextError(c0)
              ELSE ReactToException(c0, "LLMContextWindowExceedError")
         [] r.kind = "Null" -> UpdateStateAfterStep(c0)
         [] OTHER ->
              LET a0 == Ev(r.kind, "AGENT", -1, r.plan, -1, "", r.n, r.wait,
                           0, 0)
                  awaiting == /\ Runnable(a0)
                              /\ confirmation_mode
                              /\ a0.kind = "CmdRun"
                  a1 == IF awaiting
                        THEN [a0 EXCEPT !.status = "AWAITING_CONFIRMATION"]
                        ELSE a0
                  c1 == IF awaiting
                        THEN SetAgentStateTo(c0, "AWAITING_USER_CONFIRMATION")
                        ELSE c0
                  a2 == [a1 EXCEPT !.id = c1.next,
                           !.tcm = IF Runnable(a1) THEN c1.next ELSE 0]
                  c2 == IF Runnable(a2) THEN [c1 EXCEPT !.pending = a2]
                        ELSE c1
              IN UpdateStateAfterStep(Publish(c2, a2))

TrafficControl_Strict(c) ==
    LET c1 == IF c.iteration > c.max_iterations
              THEN HandleTrafficControl(c)
              ELSE c
    IN IF c1.max_budget # -1 /\ c1.metrics_cost > c1.max_budget
       THEN HandleTrafficControl(c1)
       ELSE c1

\* _step: the budget checks of lines 314-327
TrafficControl(c) ==
    LET c1 == IF c.iteration >= c.max_iterations
              THEN HandleTrafficControl(c)
              ELSE c
    IN IF c1.max_budget # -1 /\ c1.metrics_cost > c1.max_budget
       THEN HandleTrafficControl(c1)
       ELSE c1

\* the early returns of _step
StepReturnsEarly(c) ==
    \/ IsAwaitingForTaskResolving(c)
    \/ c.agent_state # "RUNNING"
    \/ c.pending.kind # "None"

\* PlanController._step
StepBody(c, r) ==
    IF StepReturnsEarly(c) THEN c
    ELSE LET c1 == TrafficControl([c EXCEPT !.attempted = TRUE])
         IN IF c1.stop THEN c1 ELSE PlannerStep(c1, r)

\* _on_event up to the call of should_step
HandleEvent(c, event) ==
    LET c1 == IF /\ event.kind \notin FilterOut
                 /\ (~IsAwaitingForTaskResolving(c) \/ event.kind \in PassType)
              THEN [c EXCEPT !.history = Append(@, event)]
              ELSE c
    IN IF IsAction(event) THEN HandleAction(c1, event)
       ELSE HandleObservation(c1, event)

\* PlanController._on_event, and the _step task it schedules
OnEventBody(c, event, r) ==
    LET c2 == HandleEvent(c, event)
    IN IF c2.exc = "" /\ ShouldStep(c2, event)
       THEN StepBody([c2 EXCEPT !.step = TRUE], r)
       ELSE c2

\* the dispatch of event reaches the call of planning_agent.step
CallsPlanner(c, event) ==
    LET c2 == HandleEvent(c, event)
    IN /\ c2.exc = ""
       /\ ShouldStep(c2, event)
       /\ ~StepReturnsEarly(c2)
       /\ ~TrafficControl(c2).stop

\* ----------------------------------------------------------- transitions
NeedsAnswer(e) == e.kind \in {"Recall", "CmdRun"}

OutIds(out) == {<<out[k].id, out[k].kind>> : k \in
                   {j \in 1..Len(out) : NeedsAnswer(out[j])}}

\* A delegate AgentController handles the event too: the user message that
\* carries its task takes it from LOADING to RUNNING.
DelegatesHandle(ds, event) ==
    [d \in 1..Len(ds) |->
        IF event.kind = "Message" /\ event.source = "USER"
           /\ ds[d].state = "LOADING"
        THEN [ds[d] EXCEPT !.state = "RUNNING"]
        ELSE ds[d]]

\* the part of the state before the transition that `last` records
Pre ==
    [agent_state |-> agent_state, tcs |-> traffic_control_state,
     iteration |-> iteration, max_iterations |-> max_iterations,
     pending |-> pending_action, cti |-> current_task_index,
     active |-> active_plan_id, metrics_cost |-> metrics_cost,
     max_budget |-> max_budget_per_task]

NoPre ==
    [agent_state |-> "", tcs |-> "", iteration |-> 0, max_iterations |-> 0,
     pending |-> NoEvent, cti |-> 0, active |-> NoPlan, metrics_cost |-> 0,
     max_budget |-> -1]

\* the most events one dispatch publishes
MaxOut == 2

\* on_event: every subscriber handles the next event of the stream; the
\* controller's handler may run before or after the delegates' handlers
Dispatch(results, max_events) ==
    /\ queue # <<>>
    /\ next_id + MaxOut <= max_events
    /\ Head(queue).kind = "AssignTask" => Len(delegates) < MaxDelegates
    /\ \E delegates_first \in BOOLEAN :
       \E c0 \in {IF delegates_first
                  THEN [Cur EXCEPT !.delegates = DelegatesHandle(@, Head(queue))]
                  ELSE Cur} :
       \E r \in IF CallsPlanner(c0, Head(queue)) THEN results
                ELSE {CHOOSE x \in results : TRUE} :
       \E c \in {OnEventBody(c0, Head(queue), r)} :
         LET event == Head(queue)
         IN /\ delegates_first => DelegatesHandle(delegates, event) # delegates
            /\ agent_state' = c.agent_state
            /\ traffic_control_state' = c.tcs
            /\ iteration' = c.iteration
            /\ max_iterations' = c.max_iterations
            /\ max_budget_per_task' = c.max_budget
            /\ llm_cost' = c.llm_cost
            /\ local_cost' = c.local_cost
            /\ metrics_cost' = c.metrics_cost
            /\ pending_action' = c.pending
            /\ plans' = c.plans
            /\ active_plan_id' = c.active
            /\ current_task_index' = c.cti
            /\ task_controllers' = c.tc
            /\ delegates' = DelegatesHandle(c.delegates, event)
            /\ history' = c.history
            /\ truncation_id' = c.truncation_id
            /\ start_id' = c.start_id
            /\ stream' = stream \o c.out
            /\ queue' = Tail(queue) \o c.out
            /\ next_id' = c.next
            /\ unanswered' = unanswered \cup OutIds(c.out)
            /\ last' = [op |-> "on_event", ev |-> event, out |-> c.out,
                        step |-> c.step, attempted |-> c.attempted,
                        planner |-> c.planner,
                        result |-> IF c.planner THEN r.kind ELSE "",
                        exc |-> c.exc, pre |-> Pre]
    /\ UNCHANGED <<headless_mode, initial_max_iterations,
                   initial_max_budget_per_task, user_events,
                   status_callback, enable_history_truncation,
                   confirmation_mode>>
    /\ ComponentsUnchanged

\* ----------------------------------------------------------- environment
EnvLast == [op |-> "env", ev |-> NoEvent, out |-> <<>>, step |-> FALSE,
            attempted |-> FALSE, planner |-> FALSE, result |-> "",
            exc |-> "", pre |-> NoPre]

EnvPublish(e, max_events) ==
    /\ next_id < max_events
    /\ Len(queue) <= MaxLag
    /\ stream' = Append(stream, [e EXCEPT !.id = next_id])
    /\ queue' = Append(queue, [e EXCEPT !.id = next_id])
    /\ next_id' = next_id + 1
    /\ last' = EnvLast

PCUnchanged ==
    UNCHANGED <<headless_mode, initial_max_iterations, max_budget_per_task,
                initial_max_budget_per_task, agent_state,
                traffic_control_state, iteration, max_iterations, llm_cost,
                local_cost, metrics_cost, pending_action, plans,
                active_plan_id, current_task_index, task_controllers,
                history, status_callback, enable_history_truncation,
                confirmation_mode, truncation_id, start_id>>

\* the controller and its stream stay as they are
ControllerUnchanged ==
    /\ PCUnchanged
    /\ UNCHANGED <<delegates, stream, queue, next_id, unanswered, user_events,
                   last>>
    /\ SessionsUnchanged

\* the user sends a message
UserSends(max_events, max_user) ==
    /\ user_events < max_user
    /\ EnvPublish(MessageAction("USER", FALSE, NoPlan, -1, -1), max_events)
    /\ user_events' = user_events + 1
    /\ PCUnchanged
    /\ ComponentsUnchanged
    /\ UNCHANGED <<delegates, unanswered>>

UserStates == {"PAUSED", "RUNNING", "STOPPED"}

\* the user asks for one of the agent states
UserAsks(states, max_events, max_user) ==
    /\ user_events < max_user
    /\ \E s \in states :
         EnvPublish(Ev("ChangeAgentState", "USER", -1, NoPlan, -1, s, -1,
                       FALSE, 0, -1), max_events)
    /\ user_events' = user_events + 1
    /\ PCUnchanged
    /\ ComponentsUnchanged
    /\ UNCHANGED <<delegates, unanswered>>

\* the user asks for an agent state (pause, resume, stop)
UserChanges(max_events, max_user) == UserAsks(UserStates, max_events, max_user)

\* the memory answers a RecallAction, the runtime a runnable action
Answers(max_events) ==
    /\ \E u \in unanswered :
         /\ EnvPublish(Ev(IF u[2] = "Recall" THEN "NullObs" ELSE "CmdOutput",
                          "ENVIRONMENT", u[1], NoPlan, -1, "", -1, FALSE,
                          IF u[2] = "Recall" THEN 0 ELSE u[1], -1),
                       max_events)
         /\ unanswered' = unanswered \ {u}
    /\ PCUnchanged
    /\ ComponentsUnchanged
    /\ UNCHANGED <<delegates, user_events>>

\* a running delegate finishes its task: it publishes AgentFinish, whose
\* final_thought is here the delegate's number
DelegateFinishes(max_events) ==
    /\ \E d \in 1..Len(delegates) :
         /\ delegates[d].state = "RUNNING"
         /\ EnvPublish(Ev("AgentFinish", "AGENT", -1, NoPlan, -1, "", d,
                          FALSE, 0, d), max_events)
         /\ delegates' = [delegates EXCEPT ![d].state = "FINISHED"]
    /\ PCUnchanged
    /\ ComponentsUnchanged
    /\ UNCHANGED <<unanswered, user_events>>

\* a running delegate fails
DelegateFail ==
    /\ \E d \in 1..Len(delegates) :
         /\ delegates[d].state = "RUNNING"
         /\ delegates' = [delegates EXCEPT ![d].state = "ERROR"]
    /\ last' = EnvLast
    /\ PCUnchanged
    /\ ComponentsUnchanged
    /\ UNCHANGED <<stream, queue, next_id, unanswered, user_events>>

\* ----------------------------------------------------------------- init
NoControllers ==
    [plans |-> {}, entries |-> [k \in PlanIds \X (0..(MaxTasks - 1)) |-> 0]]

\* the controller after __init__(max_iterations, max_budget_per_task,
\* confirmation_mode, headless_mode, status_callback) with initial_state
\* None, for a planner whose configuration has enable_history_truncation in
\* truncations
ConstructedIn(caps, budgets, callbacks, truncations, confirmations) ==
    /\ headless_mode \in BOOLEAN
    /\ status_callback \in callbacks
    /\ enable_history_truncation \in truncations
    /\ confirmation_mode \in confirmations
    /\ truncation_id = -1
    /\ start_id = 0
    /\ tool_plans = <<>>
    /\ tool_current_plan_id = NoPlan
    /\ tool_last = NoCommand
    /\ pending_actions = <<>>
    /\ completions = 0
    /\ agent_last = NoAgentCall
    /\ hub_last = NoRun
    /\ planning_agent = NewPlanningAgent
    /\ sessions = NewSessions
    /\ initial_max_iterations \in caps
    /\ max_budget_per_task \in budgets
    /\ initial_max_budget_per_task = max_budget_per_task
    /\ agent_state = "LOADING"
    /\ traffic_control_state = "NORMAL"
    /\ iteration = 0
    /\ max_iterations = initial_max_iterations
    /\ llm_cost = 0
    /\ local_cost = 0
    /\ metrics_cost = 0
    /\ pending_action = NoEvent
    /\ plans = [p \in PlanIds |-> <<>>]
    /\ active_plan_id = NoPlan
    /\ current_task_index = 0
    /\ task_controllers = NoControllers
    /\ delegates = <<>>
    /\ history = <<>>
    /\ stream = <<>>
    /\ queue = <<>>
    /\ next_id = 0
    /\ unanswered = {}
    /\ user_events = 0
    /\ last = [op |-> "init", ev |-> NoEvent, out |-> <<>>, step |-> FALSE,
               attempted |-> FALSE, planner |-> FALSE, result |-> "",
               exc |-> "", pre |-> NoPre]

\* the controller constructed with the default of confirmation_mode
ConstructedWith(caps, budgets, callbacks, truncations) ==
    ConstructedIn(caps, budgets, callbacks, truncations, {FALSE})

\* the controller constructed without a status callback
Constructed(caps, budgets) == ConstructedWith(caps, budgets, {FALSE}, {TRUE})

\* ------------------------------------- specification: the plan life cycle
\* The planner creates plans, runs a command, talks or finishes; delegates
\* work, finish or fail; the user sends messages.
LifecycleResults ==
    CreatePlanResults
    \cup {PlannerResult("AgentFinish", FALSE, NoPlan, 0),
          PlannerResult("CmdRun", FALSE, NoPlan, -1),
          PlannerResult("Message", FALSE, NoPlan, -1)}

Init == Constructed(2..MaxCap, {-1})

OnEvent == Dispatch(LifecycleResults, MaxEvents)
UserMessage == UserSends(MaxEvents, MaxUserEvents)
Answer == Answers(MaxEvents)
DelegateFinish == DelegateFinishes(MaxEvents)

Next ==
    \/ OnEvent
    \/ UserMessage
    \/ Answer
    \/ DelegateFinish
    \/ DelegateFail

Spec == Init /\ [][Next]_vars

\* ------------------------------------ specification: the traffic control
\* The planner talks, runs commands or fails; the user sends messages and
\* pauses, resumes and stops the agent; iteration and cost caps are small.
MaxTrafficEvents == 15  \* ids handed out by the stream
MaxTrafficUser == 4     \* events published by the user
MaxBudget == 1          \* largest max_budget_per_task given to __init__

TrafficResults ==
    {PlannerResult("Message", FALSE, NoPlan, -1),
     PlannerResult("OtherError", FALSE, NoPlan, -1)}

InitTraffic == Constructed(1..MaxCap, {-1} \cup 1..MaxBudget)

OnEventTraffic == Dispatch(TrafficResults, MaxTrafficEvents)
UserMessageTraffic == UserSends(MaxTrafficEvents, MaxTrafficUser)
UserChange == UserChanges(MaxTrafficEvents, MaxTrafficUser)
AnswerTraffic == Answers(MaxTrafficEvents)

NextTraffic ==
    \/ OnEventTraffic
    \/ UserMessageTraffic
    \/ UserChange
    \/ AnswerTraffic

SpecTraffic == InitTraffic /\ [][NextTraffic]_vars

\* ----------------------------------------- specification: the resume
\* The planner only talks; the user sends messages, pauses and resumes, so
\* that a breach of the iteration cap is followed by a resume.
MaxResumeEvents == 17   \* ids handed out by the stream

ResumeResults == {PlannerResult("Message", FALSE, NoPlan, -1)}

InitResume == Constructed(1..MaxCap, {-1} \cup 1..MaxBudget)

OnEventResume == Dispatch(ResumeResults, MaxResumeEvents)
UserMessageResume == UserSends(MaxResumeEvents, MaxTrafficUser)
UserChangeResume == UserChanges(MaxResumeEvents, MaxTrafficUser)
AnswerResume == Answers(MaxResumeEvents)

NextResume ==
    \/ OnEventResume
    \/ UserMessageResume
    \/ UserChangeResume
    \/ AnswerResume

SpecResume == InitResume /\ [][NextResume]_vars

\* ------------------------------------ specification: the planner's errors
\* The planner talks, runs commands, or fails with a model error, a rate
\* limit, a context-window overflow or another exception; with and without
\* a status callback, with and without history truncation.
MaxErrorEvents == 14    \* ids handed out by the stream
MaxErrorUser == 2       \* messages sent by the user
ErrorsCap == 4          \* max_iterations given to __init__

ErrorResults ==
    {PlannerResult("Message", FALSE, NoPlan, -1),
     PlannerResult("CmdRun", FALSE, NoPlan, -1),
     PlannerResult("ModelError", FALSE, NoPlan, -1),
     PlannerResult("RateLimit", FALSE, NoPlan, -1),
     PlannerResult("ContextWindow", FALSE, NoPlan, -1),
     PlannerResult("OtherError", FALSE, NoPlan, -1)}

InitErrors == ConstructedWith({ErrorsCap}, {-1}, BOOLEAN, BOOLEAN)

OnEventErrors == Dispatch(ErrorResults, MaxErrorEvents)
UserMessageErrors == UserSends(MaxErrorEvents, MaxErrorUser)
AnswerErrors == Answers(MaxErrorEvents)

NextErrors ==
    \/ OnEventErrors
    \/ UserMessageErrors
    \/ AnswerErrors

SpecErrors == InitErrors /\ [][NextErrors]_vars

\* ------------------------- specification: two sessions in one process
\* Two PlanControllers, each on its own event stream, in agent state
\* RUNNING with nothing pending: each spawns delegates, whose agents run
\* and finish, and receives user messages and observations.

\* self.task_controllers read on the controller of session s: no instance
\* ever assigns the attribute, so the lookup yields the dict of the class
TaskControllersOf(x, s) == x.task_controllers

\* _is_awaiting_for_task_resolving of the controller of session s
AwaitingInSession(x, s) ==
    \E k \in Keys :
       LET ref == TaskControllersOf(x, s)[k]
       IN /\ ref # NoController
          /\ x.of[ref.session].delegates[ref.d].state = "RUNNING"

\* a delegate constructed by session s is RUNNING
OwnRunning(x, s) ==
    \E d \in 1..Len(x.of[s].delegates) : x.of[s].delegates[d].state = "RUNNING"

\* _assign_task_to_the_delegate of session s on AssignTask(p, i)
SessionAssigns(s, p, i) ==
    /\ Len(sessions.of[s].delegates) < MaxSessionDelegates
    /\ sessions' =
          [sessions EXCEPT
             !.of[s].delegates =
                 Append(@, [plan |-> p, task |-> i, state |-> "LOADING"]),
             !.task_controllers[<<p, i>>] =
                 [session |-> s, d |-> Len(sessions.of[s].delegates) + 1],
             !.last = [NoReceipt EXCEPT !.op = "assign", !.session = s]]

\* the delegate's controller handles the message that carries its task
SessionDelegateRuns(s, d) ==
    /\ sessions.of[s].delegates[d].state = "LOADING"
    /\ sessions' = [sessions EXCEPT
                       !.of[s].delegates[d].state = "RUNNING",
                       !.last = [NoReceipt EXCEPT !.op = "run", !.session = s]]

\* the delegate finishes and session s handles its AgentFinish, which
\* deletes the entry of the task from self.task_controllers
SessionDelegateFinishes(s, d) ==
    LET its == sessions.of[s].delegates[d]
    IN /\ its.state = "RUNNING"
       /\ sessions' = [sessions EXCEPT
                          !.of[s].delegates[d].state = "FINISHED",
                          !.task_controllers[<<its.plan, its.task>>] =
                              NoController,
                          !.last = [NoReceipt EXCEPT !.op = "finish",
                                                     !.session = s]]

SessionEvents ==
    {MessageAction("USER", FALSE, NoPlan, -1, -1),
     Ev("CmdOutput", "ENVIRONMENT", 1, NoPlan, -1, "", -1, FALSE, 1, -1),
     Ev("ChangeAgentState", "USER", -1, NoPlan, -1, "RUNNING", -1, FALSE, 0, -1)}

\* _on_event of session s, and the _step it schedules, up to the call of
\* the planner
SessionReceives(s, event) ==
    LET awaiting == AwaitingInSession(sessions, s)
        appended == /\ event.kind \notin FilterOut
                    /\ (~awaiting \/ event.kind \in PassType)
        should_step == ShouldStep([agent_state |-> "RUNNING"], event)
        stepped == should_step /\ ~awaiting
    IN /\ sessions.of[s].events < MaxSessionEvents
       /\ sessions' =
             [sessions EXCEPT
                !.of[s].events = @ + 1,
                !.of[s].history = IF appended THEN Append(@, event.kind) ELSE @,
                !.of[s].steps = IF stepped THEN @ + 1 ELSE @,
                !.last = [op |-> "receive", session |-> s,
                          own_running |-> OwnRunning(sessions, s),
                          should_step |-> should_step,
                          appended |-> appended, stepped |-> stepped]]

RestUnchanged ==
    /\ PCUnchanged
    /\ UNCHANGED <<delegates, stream, queue, next_id, unanswered,
                   user_events, last>>
    /\ ToolUnchanged
    /\ AgentUnchanged
    /\ HubUnchanged
    /\ PlannerUnchanged

Assigns ==
    /\ \E s \in Sessions : \E k \in Keys : SessionAssigns(s, k[1], k[2])
    /\ RestUnchanged

DelegateRuns ==
    /\ \E s \in Sessions : \E d \in 1..Len(sessions.of[s].delegates) :
          SessionDelegateRuns(s, d)
    /\ RestUnchanged

DelegateEnds ==
    /\ \E s \in Sessions : \E d \in 1..Len(sessions.of[s].delegates) :
          SessionDelegateFinishes(s, d)
    /\ RestUnchanged

Receives ==
    /\ \E s \in Sessions : \E event \in SessionEvents :
          SessionReceives(s, event)
    /\ RestUnchanged

InitSessions == ConstructedWith({1}, {-1}, {FALSE}, {TRUE}) /\ headless_mode

NextSessions ==
    \/ Assigns
    \/ DelegateRuns
    \/ DelegateEnds
    \/ Receives

SpecSessions == InitSessions /\ [][NextSessions]_vars

\* ------------------------------------ specification: restored sessions
\* The runs of SpecErrors, where in addition the session is restored: a
\* PlanController is constructed on the same stream with the saved state
\* as initial_state once the events published so far are handled.
Restore ==
    /\ queue = <<>>
    /\ stream # <<>>
    /\ \E c \in {InitHistory(Cur, stream)} :
          /\ history' = c.history
          /\ start_id' = c.start_id
    /\ pending_action' = NoEvent
    /\ last' = [EnvLast EXCEPT !.op = "restore", !.pre = Pre]
    /\ UNCHANGED <<headless_mode, initial_max_iterations, max_budget_per_task,
                   initial_max_budget_per_task, agent_state,
                   traffic_control_state, iteration, max_iterations, llm_cost,
                   local_cost, metrics_cost, plans, active_plan_id,
                   current_task_index, task_controllers, status_callback,
                   enable_history_truncation, confirmation_mode,
                   truncation_id, delegates, stream, queue, next_id,
                   unanswered, user_events>>
    /\ ComponentsUnchanged

OnEventRestore == Dispatch(ErrorResults, MaxErrorEvents)
UserMessageRestore == UserSends(MaxErrorEvents, MaxErrorUser)
AnswerRestore == Answers(MaxErrorEvents)

NextRestore ==
    \/ OnEventRestore
    \/ UserMessageRestore
    \/ AnswerRestore
    \/ Restore

SpecRestore == InitErrors /\ [][NextRestore]_vars

\* ------------------------------------ specification: confirmation mode
\* The controller is constructed with confirmation_mode on.  The planner
\* runs commands or talks; the user sends messages and confirms or rejects;
\* the runtime answers the commands.
MaxConfirmEvents == 14  \* ids handed out by the stream
MaxConfirmUser == 3     \* events published by the user
ConfirmCap == 4         \* max_iterations given to __init__

ConfirmResults ==
    {PlannerResult("CmdRun", FALSE, NoPlan, -1),
     PlannerResult("Message", FALSE, NoPlan, -1)}

Decisions == {"USER_CONFIRMED", "USER_REJECTED"}

InitConfirm == ConstructedIn({ConfirmCap}, {-1}, {FALSE}, {TRUE}, {TRUE})

OnEventConfirm == Dispatch(ConfirmResults, MaxConfirmEvents)
UserMessageConfirm == UserSends(MaxConfirmEvents, MaxConfirmUser)
UserDecides == UserAsks(Decisions, MaxConfirmEvents, MaxConfirmUser)
AnswerConfirm == Answers(MaxConfirmEvents)

NextConfirm ==
    \/ OnEventConfirm
    \/ UserMessageConfirm
    \/ UserDecides
    \/ AnswerConfirm

SpecConfirm == InitConfirm /\ [][NextConfirm]_vars

\* ------------------------------------- specification: the planning tool
\* Any sequence of at most MaxCalls commands on a fresh PlanningTool.
PlanArgs == PlanIds \cup {NoPlan}          \* NoPlan: plan_id is omitted
IndexArgs == (-1..MaxSteps) \cup {NoneIndex}
StatusArgs == {"", "completed", "in_progress", "done"}
NotesArgs == {"", "n"}
ResultArgs == {None, "r"}

\* await planning_tool.execute(**a)
Call(a) ==
    /\ tool_last.n < MaxCalls
    /\ \E t \in {Execute(Tool, a)} :
          /\ tool_plans' = t.plans
          /\ tool_current_plan_id' = t.current
          /\ tool_last' = [n |-> tool_last.n + 1, args |-> a,
                           error |-> t.error, output |-> t.output]
    /\ ControllerUnchanged
    /\ AgentUnchanged
    /\ HubUnchanged
    /\ PlannerUnchanged

Create ==
    \E p \in PlanArgs, title \in TitleArgs, s \in StepsArgs :
       Call(Args("create", p, title, s, NoneIndex, "", "", None))
Update ==
    \E p \in PlanArgs, title \in TitleArgs, s \in StepsArgs :
       Call(Args("update", p, title, s, NoneIndex, "", "", None))
List == Call(Args("list", NoPlan, "", NoSteps, NoneIndex, "", "", None))
Get ==
    \E p \in PlanArgs :
       Call(Args("get", p, "", NoSteps, NoneIndex, "", "", None))
SetActive ==
    \E p \in PlanArgs :
       Call(Args("set_active", p, "", NoSteps, NoneIndex, "", "", None))
MarkStep ==
    \E p \in PlanArgs, i \in IndexArgs, s \in StatusArgs, n \in NotesArgs :
       Call(Args("mark_step", p, "", NoSteps, i, s, n, None))
Delete ==
    \E p \in PlanArgs :
       Call(Args("delete", p, "", NoSteps, NoneIndex, "", "", None))
AddResult ==
    \E p \in PlanArgs, i \in IndexArgs, r \in ResultArgs :
       Call(Args("add_result", p, "", NoSteps, i, "", "", r))
Unrecognized ==
    Call(Args("remove", NoPlan, "", NoSteps, NoneIndex, "", "", None))

InitTool == ConstructedWith({1}, {-1}, {FALSE}, {TRUE}) /\ headless_mode

NextTool ==
    \/ Create
    \/ Update
    \/ List
    \/ Get
    \/ SetActive
    \/ MarkStep
    \/ Delete
    \/ AddResult
    \/ Unrecognized

SpecTool == InitTool /\ [][NextTool]_vars

\* ------------------------------------ specification: the CodeAct agent
\* A controller calls step() and reset() of one CodeAct agent in any order;
\* the state's latest user message, the Function Hub's search result and
\* the LLM's response are whatever they may be at each step.

\* agent.step(state)
AgentStep ==
    /\ \E m \in LatestUserMessages, hub \in HubResults, len \in 1..MaxActions :
          \E r \in {CodeActAgent_step(CodeActAgent, m, hub, len)} :
             /\ r.completions <= MaxCompletions
             /\ pending_actions' = r.pending_actions
             /\ completions' = r.completions
             /\ agent_last' =
                   [op |-> "step", message |-> m, hub |-> hub,
                    pre |-> pending_actions, returned |-> r.returned,
                    checked_exit |-> r.checked_exit,
                    called_llm |-> r.called_llm, tools |-> r.tools,
                    ids |-> r.ids, reset_at |-> agent_last.reset_at]
    /\ ControllerUnchanged
    /\ ToolUnchanged
    /\ HubUnchanged
    /\ PlannerUnchanged

\* agent.reset()
AgentReset ==
    /\ \E r \in {CodeActAgent_reset(CodeActAgent)} :
          /\ pending_actions' = r.pending_actions
          /\ completions' = r.completions
          /\ agent_last' = [NoAgentCall EXCEPT !.op = "reset",
                                               !.pre = pending_actions,
                                               !.reset_at = completions]
    /\ ControllerUnchanged
    /\ ToolUnchanged
    /\ HubUnchanged
    /\ PlannerUnchanged

InitAgent == ConstructedWith({1}, {-1}, {FALSE}, {TRUE}) /\ headless_mode

NextAgent ==
    \/ AgentStep
    \/ AgentReset

SpecAgent == InitAgent /\ [][NextAgent]_vars

\* ------------------------------ specification: the Function Hub runner
\* The runner executes Function Hub tools one after another; the Function
\* Hub answers an execution with any list of typed results, which
\* execute_function collects one by one before run() flattens them.

\* execute_function: responses.append(self._process_response(item)), on
\* the list of a new execution once the last one has returned
Receive ==
    /\ \E response \in BaseFunctionHubResponse :
          \E responses \in {IF hub_last.ran THEN <<>> ELSE hub_last.responses} :
             /\ Len(responses) < MaxResponses
             /\ hub_last' = [NoRun EXCEPT !.responses = Append(responses, response)]
    /\ ControllerUnchanged
    /\ ToolUnchanged
    /\ AgentUnchanged
    /\ PlannerUnchanged

\* run(), from the return of execute_function on
Run ==
    /\ ~hub_last.ran
    /\ hub_last' = [ran |-> TRUE, responses |-> hub_last.responses,
                    observation |-> FunctionHubRunner_run(hub_last.responses)]
    /\ ControllerUnchanged
    /\ ToolUnchanged
    /\ AgentUnchanged
    /\ PlannerUnchanged

InitHub == ConstructedWith({1}, {-1}, {FALSE}, {TRUE}) /\ headless_mode

NextHub ==
    \/ Receive
    \/ Run

SpecHub == InitHub /\ [][NextHub]_vars

\* ------------------------------------ specification: the planning agent
\* A caller iterates over planning_agent.run(input_text), run after run on
\* the same agent; every completion of the LLM answers or raises.

\* the tool and the agent after a piece of run()
Yields(r) ==
    /\ planning_agent' = r.agent
    /\ tool_plans' = r.tool.plans
    /\ tool_current_plan_id' = r.tool.current
    /\ UNCHANGED tool_last
    /\ ControllerUnchanged
    /\ AgentUnchanged
    /\ HubUnchanged

\* run() from its call to the yield of the initial plan
RunCalled ==
    /\ planning_agent.pc = "idle"
    /\ planning_agent.runs < MaxRuns
    /\ \E completion \in Completions :
          \E c \in {PlanningAgent_create_initial_plan(Tool, completion)} :
             Yields([agent |-> [planning_agent EXCEPT
                                   !.pc = "created",
                                   !.runs = @ + 1,
                                   !.had_plan = PlanAt(tool_plans, PlanId) # 0,
                                   !.update = Yielded("planning", c.result)],
                     tool |-> c.tool])

\* run() from the yield of the initial plan to the next yield
RunCreated ==
    /\ planning_agent.pc = "created"
    /\ IF PlanAt(tool_plans, PlanId) = 0
       THEN Yields([agent |-> [planning_agent EXCEPT
                                  !.pc = "error",
                                  !.update = Yielded("error", Text("Cannot create plan"))],
                    tool |-> Tool])
       ELSE \E r \in {LoopHead(planning_agent, Tool)} : Yields(r)

\* run() from the yield of the current plan to the next yield
RunLoop ==
    /\ planning_agent.pc = "loop"
    /\ \E completion \in Completions :
          IF planning_agent.current_step_index = NoneIndex
          THEN \E f \in {PlanningAgent_finalize_plan(Tool, completion)} :
                  Yields([agent |-> [planning_agent EXCEPT
                                        !.pc = "final",
                                        !.update = Yielded("final_answer", f.result)],
                          tool |-> f.tool])
          ELSE \E s \in {PlanningAgent_execute_step(Tool, completion)} :
                  \E r \in {LoopHead(planning_agent,
                                     PlanningAgent_mark_step_completed(
                                        s.tool, planning_agent.current_step_index,
                                        s.result))} :
                     Yields(r)

\* run() returns after its last yield
RunReturns ==
    /\ planning_agent.pc \in {"error", "final"}
    /\ Yields([agent |-> [planning_agent EXCEPT !.pc = "idle"], tool |-> Tool])

InitPlanner == ConstructedWith({1}, {-1}, {FALSE}, {TRUE}) /\ headless_mode

NextPlanner ==
    \/ RunCalled
    \/ RunCreated
    \/ RunLoop
    \/ RunReturns

SpecPlanner == InitPlanner /\ [][NextPlanner]_vars

\* ------------------------- specification: runs of the planning agent
\* The runs of SpecPlanner, iterated to their end by the caller (async for
\* resumes the generator after every yield, hence the fairness), while a
\* step that has not started may be marked blocked through the tool.
Blocks ==
    /\ PlanAt(tool_plans, PlanId) # 0
    /\ \E i \in 0..(Len(DefaultSteps) - 1) :
          /\ tool_plans[PlanAt(tool_plans, PlanId)].step_statuses[i + 1] = "not_started"
          /\ \E t \in {Execute(Tool, Args("mark_step", PlanId, "", NoSteps, i, "blocked", "", None))} :
                Yields([agent |-> planning_agent, tool |-> t])

NextRuns ==
    \/ RunCalled
    \/ RunCreated
    \/ RunLoop
    \/ RunReturns
    \/ Blocks

\* run() goes on from the yield it is suspended at: the generator is left
\* at pc "idle" by the first disjunct only when it returns, and with
\* another update or another pc by every other resumption
Advances ==
    /\ planning_agent.pc # "idle"
    /\ \/ planning_agent' = [planning_agent EXCEPT !.pc = "idle"]
       \/ planning_agent' # planning_agent

SpecRuns == InitPlanner /\ [][NextRuns]_vars /\ WF_planning_agent(Advances)

\* --------------------------------------- specification: the happy path
\* One user request; the planner creates one plan at its first step, emits
\* AgentFinish once every task of the plan is resolved and has nothing to
\* say at any other step; every delegate finishes; nobody fails.  Every
\* step that stays enabled is eventually taken.  The iteration cap is large
\* enough for the planner's steps.
HappyCap == 8           \* max_iterations given to __init__

\* ids handed out by the stream: enough for the whole path
HappyEvents == 14 + 8 * MaxTasks

HappyResults ==
    IF active_plan_id = NoPlan
    THEN {PlannerResult("CreatePlan", FALSE, "p1", n) : n \in 1..MaxTasks}
    ELSE IF IsAllTaskResolvedIn(plans[active_plan_id])
    THEN {PlannerResult("AgentFinish", FALSE, NoPlan, 0)}
    ELSE {PlannerResult("Null", FALSE, NoPlan, -1)}

InitHappy == Constructed({HappyCap}, {-1})

OnEventHappy == Dispatch(HappyResults, HappyEvents)

\* the single request of the user
UserMessageHappy == UserSends(HappyEvents, 1)
AnswerHappy == Answers(HappyEvents)
DelegateFinishHappy == DelegateFinishes(HappyEvents)

NextHappy ==
    \/ OnEventHappy
    \/ UserMessageHappy
    \/ AnswerHappy
    \/ DelegateFinishHappy

SpecHappy ==
    /\ InitHappy
    /\ [][NextHappy]_vars
    /\ WF_vars(OnEventHappy)
    /\ WF_vars(UserMessageHappy)
    /\ WF_vars(AnswerHappy)
    /\ WF_vars(DelegateFinishHappy)

\* -------------------------------------------------------------- properties
TaskIdx == 0..(MaxTasks - 1)

\* the last transition was the controller's handling of an event of this kind
Handled(kind) == last.op = "on_event" /\ last.ev.kind = kind

OutKinds(kind) == {k \in 1..Len(last.out) : last.out[k].kind = kind}

\* the delegate constructed by the transition, if any
Spawned(p, i) ==
    /\ Len(delegates') = Len(delegates) + 1
    /\ delegates'[Len(delegates')].plan = p
    /\ delegates'[Len(delegates')].task = i

\* the transition is the controller's handling of an event of this kind
Handling(kind) ==
    /\ queue # <<>>
    /\ Head(queue).kind = kind
    /\ last'.op = "on_event"
    /\ last'.ev = Head(queue)

Entry(p, i) == task_controllers.entries[<<p, i>>]

\* task i of plan p becomes COMPLETED in the transition
Completes(p, i) ==
    /\ i < Len(plans[p])
    /\ i < Len(plans'[p])
    /\ plans[p][i + 1].status # "COMPLETED"
    /\ plans'[p][i + 1].status = "COMPLETED"

\* C1: the controller holds at most one delegate controller per (plan_id,
\* task_index): no transition constructs a delegate for a (plan, task) that
\* has an entry in the delegate map, and when a task completes its entry is
\* removed.
C1_AtMostOneDelegatePerTask ==
    [][\A p \in PlanIds : \A i \in TaskIdx :
          /\ Entry(p, i) # 0 => ~Spawned(p, i)
          /\ Completes(p, i) => task_controllers'.entries[<<p, i>>] = 0]_vars

\* no reset of the controller happened in the last transition
NoReset ==
    ~(agent_state \in {"STOPPED", "ERROR"}
      /\ agent_state # last.pre.agent_state)

\* the last transition handled an answer to the action that was pending
Answered ==
    \/ IsObservation(last.ev) /\ last.ev.cause = last.pre.pending.id
    \/ last.ev.kind = "ChangeAgentState"
       /\ last.ev.status \in {"USER_CONFIRMED", "USER_REJECTED"}

\* C2: at most one runnable action is in flight: while the pending runnable
\* action is unanswered (no observation with its cause, no confirmation or
\* rejection, no reset) the controller publishes no runnable action and
\* keeps its pending action; a user message does not discard it.
C2_OneRunnableInFlight ==
    (/\ last.op = "on_event"
     /\ Runnable(last.pre.pending)
     /\ ~Answered
     /\ NoReset)
    => /\ pending_action = last.pre.pending
       /\ \A k \in 1..Len(last.out) : ~Runnable(last.out[k])

\* C3: handling the AgentFinish of the delegate of task i completes task i
\* with the action's final_thought as result, removes task i's delegate from
\* the map and publishes MarkTask(i, COMPLETED) first; if i + 1 < number of
\* tasks, current_task_index becomes i + 1, task i + 1 becomes IN_PROGRESS
\* and MarkTask(i + 1, IN_PROGRESS) follows; otherwise no MarkTask
\* (IN_PROGRESS) and exactly one user message asking to finalise follow.
C3_DelegateFinishAdvances ==
    (Handled("AgentFinish") /\ last.ev.sender > 0) =>
        LET d == last.ev.sender
            p == delegates[d].plan
            i == delegates[d].task
            n == Len(plans[p])
            out == last.out
        IN /\ i < n
           /\ plans[p][i + 1].status = "COMPLETED"
           /\ plans[p][i + 1].result = last.ev.n
           /\ Entry(p, i) = 0
           /\ Len(out) >= 1
           /\ out[1] = [MarkTaskAction(p, i, "COMPLETED") EXCEPT
                          !.id = out[1].id]
           /\ IF i + 1 < n
              THEN /\ current_task_index = i + 1
                   /\ plans[p][i + 2].status = "IN_PROGRESS"
                   /\ Len(out) = 2
                   /\ out[2] = [MarkTaskAction(p, i + 1, "IN_PROGRESS")
                                  EXCEPT !.id = out[2].id]
              ELSE /\ Len(out) = 2
                   /\ out[2].kind = "Message"
                   /\ out[2].source = "USER"

\* the active plan exists and all its tasks are COMPLETED or BLOCKED
ActiveResolved ==
    /\ active_plan_id \in PlanIds
    /\ plans[active_plan_id] # <<>>
    /\ \A k \in 1..Len(plans[active_plan_id]) :
          \/ plans[active_plan_id][k].status = "COMPLETED"
          \/ plans[active_plan_id][k].status = "BLOCKED"

\* C4: handling an AgentFinish (an active plan exists) moves the controller
\* to FINISHED if and only if every task of the active plan is COMPLETED or
\* BLOCKED when the event is handled; then the metrics are merged and no
\* task's status or result changes; no other transition moves the
\* controller to FINISHED.
C4_FinishedIffAllResolved ==
    [][/\ (Handling("AgentFinish") /\ active_plan_id \in PlanIds
                                   /\ plans[active_plan_id] # <<>>)
          => IF ActiveResolved
             THEN /\ agent_state' = "FINISHED"
                  /\ metrics_cost' = metrics_cost + local_cost
                  /\ plans' = plans
             ELSE agent_state' = agent_state
       /\ (agent_state # "FINISHED" /\ agent_state' = "FINISHED")
          => Handling("AgentFinish") /\ ActiveResolved]_vars

\* the controller has just finished on an AgentFinish, with merged metrics
C4_Witness ==
    /\ Handled("AgentFinish")
    /\ last.pre.agent_state = "RUNNING"
    /\ agent_state = "FINISHED"
    /\ metrics_cost > 0

\* C6: handling CreatePlan registers the plan under its plan_id, makes it the
\* active plan, sets current_task_index to 0, sets task 0 IN_PROGRESS and
\* leaves every other task as it is, and publishes exactly one
\* MarkTask(0, IN_PROGRESS) for the new plan.
C6_CreatePlanStartsTaskZero ==
    [][Handling("CreatePlan") =>
         LET e == Head(queue)
             p == e.plan
         IN /\ Len(plans'[p]) = e.n
            /\ active_plan_id' = p
            /\ current_task_index' = 0
            /\ plans'[p][1] = [status |-> "IN_PROGRESS", result |-> NoResult]
            /\ \A k \in 2..e.n :
                  plans'[p][k] = [status |-> "NOT_STARTED",
                                  result |-> NoResult]
            /\ \A q \in PlanIds \ {p} : plans'[q] = plans[q]
            /\ last'.out = <<[MarkTaskAction(p, 0, "IN_PROGRESS")
                                EXCEPT !.id = next_id]>>]_vars

\* a plan of MaxTasks tasks has just been created while another plan exists
C6_Witness ==
    /\ Handled("CreatePlan")
    /\ last.ev.n = MaxTasks
    /\ active_plan_id = last.ev.plan
    /\ \E q \in PlanIds \ {last.ev.plan} : plans[q] # <<>>

\* C7: handling MarkTask(i, IN_PROGRESS) publishes exactly one AssignTask for
\* task i of the active plan, bound to the delegate id "<session>_<i>", and
\* no delegate spawned earlier in the session was bound to that id; a
\* MarkTask with another status publishes no AssignTask.
C7_FreshDelegateId ==
    Handled("MarkTask") =>
        IF last.ev.status = "IN_PROGRESS"
        THEN /\ last.out = <<[AssignTaskAction(active_plan_id, last.ev.task,
                                               last.ev.task)
                                EXCEPT !.id = last.out[1].id]>>
             /\ \A d \in 1..Len(delegates) :
                   delegates[d].sid # last.out[1].n
        ELSE OutKinds("AssignTask") = {}

\* the handling of AssignTask e constructs a delegate with this cap
SpawnedWith(e, cap) ==
    /\ Len(delegates') = Len(delegates) + 1
    /\ LET d == delegates'[Len(delegates')]
       IN /\ d.plan = e.plan
          /\ d.task = e.task
          /\ d.headless = FALSE
          /\ d.max_iterations = cap

\* the handling of AssignTask e publishes the prompt and nothing else
Prompted(e) ==
    last'.out = <<[MessageAction("USER", FALSE, e.plan, e.task, 0)
                     EXCEPT !.id = next_id]>>

\* C8: handling AssignTask spawns a delegate controller on the same stream,
\* not headless, whose iteration cap is the integer half of the planner's
\* remaining iterations (max_iterations - iteration) at spawn time, and
\* publishes exactly one user message with the plan and the task.
C8_HalfOfRemaining ==
    [][Handling("AssignTask") =>
         /\ SpawnedWith(Head(queue), (max_iterations - iteration) \div 2)
         /\ Prompted(Head(queue))]_vars

\* C8 (amended): the delegate's iteration cap is the integer half of the
\* planner's max_iterations at spawn time, whatever iterations were used;
\* the user message with the plan and the task is published when the plan
\* still has the task, and otherwise the handler fails after the spawn and
\* publishes nothing.
C8_HalfOfMaxIterations ==
    [][Handling("AssignTask") =>
         LET e == Head(queue)
         IN /\ SpawnedWith(e, max_iterations \div 2)
            /\ IF e.task < Len(plans[e.plan])
               THEN Prompted(e)
               ELSE last'.out = <<>> /\ last'.exc = "IndexError"]_vars

\* a delegate has just been spawned after the planner used iterations
C8_Witness ==
    /\ Handled("AssignTask")
    /\ last.pre.iteration > 0
    /\ Len(delegates) > 0
    /\ delegates[Len(delegates)].max_iterations
          = last.pre.max_iterations \div 2
    /\ Len(last.out) = 1

\* the step of the last transition was attempted over a cap
Breach ==
    \/ last.pre.iteration >= last.pre.max_iterations
    \/ /\ last.pre.max_budget # -1
       /\ last.pre.metrics_cost > last.pre.max_budget

\* C9: when a step is attempted with iteration >= max_iterations, or with
\* the accumulated cost above the cost cap, while traffic control is NORMAL,
\* traffic control becomes THROTTLING, the planner agent is not invoked, no
\* action is published and iteration is not incremented; in headless mode
\* the agent state becomes ERROR.  The planner agent is invoked with
\* iteration >= max_iterations only after a resume by the user (traffic
\* control PAUSED).
C9_BudgetEnforced ==
    /\ (/\ last.op = "on_event"
        /\ last.attempted
        /\ Breach
        /\ last.pre.tcs = "NORMAL")
       => /\ traffic_control_state = "THROTTLING"
          /\ ~last.planner
          /\ \A k \in 1..Len(last.out) : ~IsAction(last.out[k])
          /\ iteration = last.pre.iteration
          /\ headless_mode => agent_state = "ERROR"
    /\ (last.op = "on_event" /\ last.planner)
       => \/ last.pre.iteration < last.pre.max_iterations
          \/ last.pre.tcs = "PAUSED"

\* a step has just been refused in headless mode, over the iteration cap
C9_Witness ==
    /\ last.op = "on_event"
    /\ last.attempted
    /\ last.pre.iteration >= last.pre.max_iterations
    /\ last.pre.tcs = "NORMAL"
    /\ headless_mode
    /\ ~last.planner
    /\ traffic_control_state = "THROTTLING"

\* C10: in non-headless mode a budget breach is not fatal: the step is
\* refused, traffic control THROTTLING awaits a resume by the user, and the
\* agent state does not become ERROR.
C10_BreachNotFatalInteractive ==
    (/\ ~headless_mode
     /\ last.op = "on_event"
     /\ last.attempted
     /\ Breach
     /\ last.pre.tcs = "NORMAL")
    => /\ traffic_control_state = "THROTTLING"
       /\ ~last.planner
       /\ agent_state # "ERROR"

\* the controller is FINISHED, every task of the plan is COMPLETED, and the
\* delegates constructed are one per task, in index order
HappyDone ==
    /\ agent_state = "FINISHED"
    /\ active_plan_id = "p1"
    /\ Len(plans["p1"]) >= 1
    /\ \A k \in 1..Len(plans["p1"]) : plans["p1"][k].status = "COMPLETED"
    /\ Len(delegates) = Len(plans["p1"])
    /\ \A d \in 1..Len(delegates) :
          delegates[d].plan = "p1" /\ delegates[d].task = d - 1

\* C5: on the happy path (the planner creates a plan of n >= 1 tasks, every
\* delegate emits AgentFinish, the planner emits AgentFinish once the tasks
\* are done) and under fair scheduling, the controller eventually reaches
\* FINISHED with all n tasks COMPLETED, each task assigned to a delegate
\* exactly once and in index order.
C5_HappyPathFinishes == <>HappyDone

\* the happy path has ended for a plan of MaxTasks tasks
C5_Witness == HappyDone /\ Len(plans["p1"]) = MaxTasks

\* the last transition handled a resume by the user (PAUSED -> RUNNING) while
\* traffic control was THROTTLING
Resumed ==
    /\ last.op = "on_event"
    /\ last.ev.kind = "ChangeAgentState"
    /\ last.ev.status = "RUNNING"
    /\ last.pre.agent_state = "PAUSED"
    /\ last.pre.tcs = "THROTTLING"

\* C11: in interactive mode, a resume by the user while traffic control is
\* THROTTLING moves traffic control to PAUSED and doubles the breached
\* budget (max_iterations, the cost cap), and afterwards the planner is
\* never run with iteration at or over max_iterations, so that iteration
\* never exceeds the bumped cap.
C11_ResumeDoublesBudget ==
    ~headless_mode =>
       /\ Resumed =>
            /\ traffic_control_state = "PAUSED"
            /\ last.pre.iteration >= last.pre.max_iterations
                 => max_iterations = 2 * last.pre.max_iterations
            /\ (last.pre.max_budget # -1
                /\ last.pre.metrics_cost >= last.pre.max_budget)
                 => max_budget_per_task = 2 * last.pre.max_budget
       /\ (last.op = "on_event" /\ last.planner)
            => last.pre.iteration < last.pre.max_iterations

\* the last transition moved the agent state into STOPPED or ERROR
Stopped ==
    /\ last.op = "on_event"
    /\ agent_state \in {"STOPPED", "ERROR"}
    /\ agent_state # last.pre.agent_state

\* the observations "The action has not been executed." of the last transition
NotExecuted == {k \in 1..Len(last.out) : last.out[k].kind = "Error"
                                         /\ last.out[k].cause # -1}

\* C12: every transition of the agent state into STOPPED or ERROR
\* synchronises the metrics and leaves pending_action empty; if the cleared
\* pending action carried tool-call metadata and history holds no
\* observation with that metadata, exactly one ErrorObservation with that
\* metadata and the action's id as cause is published; otherwise none is.
C12_ResetOnStopOrError ==
    Stopped =>
       LET p == last.pre.pending
           needs == /\ p.kind # "None"
                    /\ p.tcm # 0
                    /\ ~\E k \in 1..Len(history) :
                          IsObservation(history[k]) /\ history[k].tcm = p.tcm
       IN /\ pending_action = NoEvent
          /\ local_cost = llm_cost
          /\ metrics_cost = last.pre.metrics_cost + local_cost
          /\ IF needs
             THEN /\ Cardinality(NotExecuted) = 1
                  /\ \A k \in NotExecuted :
                        last.out[k].cause = p.id /\ last.out[k].tcm = p.tcm
             ELSE NotExecuted = {}

\* the planner's step of the last transition failed with kind
Failed(kind) == last.op = "on_event" /\ last.planner /\ last.result = kind

\* C13: when a planner step fails with a RateLimit error the agent state
\* becomes RATE_LIMITED and the controller does not enter ERROR for that
\* failure: no AgentStateChanged(ERROR) is published and no reset is
\* performed, whether or not a status callback is configured.
C13_RateLimitIsNotAnError ==
    Failed("RateLimit") =>
       /\ agent_state = "RATE_LIMITED"
       /\ pending_action = last.pre.pending
       /\ \A k \in 1..Len(last.out) :
             /\ last.out[k].kind = "AgentStateChanged"
                   => last.out[k].status # "ERROR"
             /\ last.out[k].kind # "Error"

Range(s) == {s[k] : k \in 1..Len(s)}

\* the planner's step of this transition fails with a context-window
\* overflow
Overflows == last'.op = "on_event" /\ last'.planner
             /\ last'.result = "ContextWindow"

\* C15: when the planner's step fails with a context-window overflow and
\* history truncation is enabled, the history is truncated (only events it
\* held are kept: the newer half, one paired action and the first user
\* message at most), truncation_id is recorded, exactly
\* one AgentCondensation observation is published and the agent state stays
\* RUNNING; the delivery of that observation schedules a further step.  When
\* truncation is disabled the controller transitions to ERROR and the
\* history is unchanged.
C15_ContextWindowOverflow ==
    [][/\ (Overflows /\ enable_history_truncation) =>
             /\ Range(history') \subseteq Range(history) \cup {Head(queue)}
             /\ Len(history') <= ((Len(history) + 2) \div 2) + 2
             /\ truncation_id' # -1
             /\ \E k \in 1..Len(history') : history'[k].id = truncation_id'
             /\ Len(last'.out) = 1
             /\ last'.out[1].kind = "AgentCondensation"
             /\ agent_state' = "RUNNING"
       /\ (Overflows /\ ~enable_history_truncation) =>
             /\ agent_state' = "ERROR"
             /\ history' \in {history, Append(history, Head(queue))}
       /\ (last'.op = "on_event" /\ last'.ev.kind = "AgentCondensation")
             => last'.step
      ]_vars

\* the condensation observation is delivered, and the step it schedules
\* calls the planner again on the truncated history
C15_Witness ==
    /\ last.op = "on_event"
    /\ last.ev.kind = "AgentCondensation"
    /\ last.planner
    /\ truncation_id # -1
    /\ Len(history) >= 4

\* C16: after a truncation the first user message of the input history is
\* present exactly once in the result, and every observation with a cause
\* in the resulting window, not only the first kept event, has the action
\* with that id in the window too.
C16_WindowKeepsPairs ==
    [][(Overflows /\ enable_history_truncation) =>
          /\ \A u \in Range(history) :
                u = FirstUserMessage(history) =>
                   Cardinality({k \in 1..Len(history') : history'[k] = u}) = 1
          /\ \A k \in 1..Len(history') :
                (IsObservation(history'[k]) /\ history'[k].cause # -1) =>
                   \E j \in 1..Len(history') :
                      /\ IsAction(history'[j])
                      /\ history'[j].id = history'[k].cause
      ]_vars

\* the states carried by the AgentStateChanged observations of the last
\* transition, in the order of their publication
RECURSIVE Announced(_)
Announced(out) ==
    IF out = <<>> THEN <<>>
    ELSE IF Head(out).kind = "AgentStateChanged"
    THEN <<Head(out).status>> \o Announced(Tail(out))
    ELSE Announced(Tail(out))

\* C17: every change of the agent state publishes exactly one
\* AgentStateChanged observation carrying the new state, after the events
\* the transition's side effects emit; a request to set the state the
\* controller already has publishes nothing, performs no reset and changes
\* nothing.
C17_StateChangeAnnounced ==
    last.op = "on_event" =>
       LET states == <<last.pre.agent_state>> \o Announced(last.out)
       IN /\ states[Len(states)] = agent_state
          /\ \A k \in 1..(Len(states) - 1) : states[k] # states[k + 1]
          /\ \A k \in NotExecuted :
                \E j \in (k + 1)..Len(last.out) :
                   /\ last.out[j].kind = "AgentStateChanged"
                   /\ last.out[j].status \in {"STOPPED", "ERROR"}
          /\ (last.ev.kind = "ChangeAgentState"
              /\ last.ev.status = last.pre.agent_state) =>
                /\ last.out = <<>>
                /\ agent_state = last.pre.agent_state
                /\ pending_action = last.pre.pending
                /\ traffic_control_state = last.pre.tcs
                /\ max_iterations = last.pre.max_iterations
                /\ max_budget_per_task = last.pre.max_budget
                /\ metrics_cost = last.pre.metrics_cost

\* a transition into STOPPED whose reset emits an observation before the
\* change is announced
C17_Witness ==
    /\ Stopped
    /\ Len(last.out) = 2
    /\ last.out[1].kind = "Error"
    /\ last.out[2].kind = "AgentStateChanged"
    /\ last.out[2].status = "STOPPED"

\* C18: between event deliveries state.history is the sequence, in id
\* order, of the delivered events of the stream whose type is not in the
\* dropped-type set, which is what close() recomputes from the stream (no
\* event is hidden and no truncation happens here).  Stated as the step
\* that keeps it so: each delivery appends the event exactly when its type
\* is not dropped.
C18_HistoryMirrorsStream ==
    [][last'.op = "on_event" =>
          history' = IF Head(queue).kind \in FilterOut
                     THEN history
                     ELSE Append(history, Head(queue))
      ]_vars

\* command was the last command given to the tool, and it succeeded
Done(command) ==
    tool_last.args.command = command /\ tool_last.error = ""

\* the lists of a stored plan have the length of its steps
SameLengths(plan) ==
    /\ Len(plan.step_statuses) = Len(plan.steps)
    /\ Len(plan.step_notes) = Len(plan.steps)
    /\ Len(plan.step_results) = Len(plan.steps)

\* C19: after any sequence of Plan Tool commands, successful or failing,
\* every stored plan has as many statuses, notes and results as steps.
C19_ListsMatchSteps ==
    \A k \in 1..Len(tool_plans) : SameLengths(tool_plans[k])

\* an update has replaced a two-step list by a one-step list
C19_Witness ==
    /\ Done("update")
    /\ tool_last.args.steps.kind = "list"
    /\ \E k \in 1..Len(tool_plans) :
          /\ tool_plans[k].steps = tool_last.args.steps.items
          /\ Len(tool_plans[k].steps) = 1
          /\ tool_plans[k].step_statuses = <<"completed">>

\* the steps a formatted plan shows, in the order of its rows
Rendered(text) == [k \in 1..Len(text.lines) |-> text.lines[k].step]

\* the call of this transition is a create
Creates == tool_last'.args.command = "create"

\* C20: create with a plan_id not yet stored, a title and a non-empty list
\* of string steps stores a plan whose steps are the input in order, every
\* status NOT_STARTED, notes empty and no results, and makes it the current
\* plan; a get renders exactly the stored steps in order, numbered from 0.
\* create with a stored plan_id, a missing title, or empty or invalid steps
\* is an error that leaves every stored plan and the current plan id
\* unchanged.
C20_CreateStoresPlan ==
    [][LET a == tool_last'.args
           stored == PlanAt(tool_plans, a.plan_id) # 0
           good_steps == a.steps.kind = "list"
                         /\ \A k \in 1..Len(a.steps.items) :
                               a.steps.items[k] \in StepTexts
           n == Len(a.steps.items)
       IN /\ (Creates /\ a.plan_id # NoPlan /\ ~stored /\ a.title # ""
              /\ good_steps) =>
                /\ tool_last'.error = ""
                /\ tool_plans' = Append(tool_plans,
                      [plan_id |-> a.plan_id, title |-> a.title,
                       steps |-> a.steps.items,
                       step_statuses |-> [k \in 1..n |-> "not_started"],
                       step_notes |-> [k \in 1..n |-> ""],
                       step_results |-> [k \in 1..n |-> None]])
                /\ tool_current_plan_id' = a.plan_id
                /\ Rendered(tool_last'.output.rows[1]) = a.steps.items
          /\ (Creates /\ (stored \/ a.title = "" \/ ~good_steps)) =>
                /\ tool_last'.error # ""
                /\ tool_plans' = tool_plans
                /\ tool_current_plan_id' = tool_current_plan_id
          /\ (tool_last'.args.command = "get" /\ tool_last'.error = "") =>
                LET text == tool_last'.output.rows[1]
                    k == PlanAt(tool_plans, text.plan_id)
                IN /\ text.plan_id = Target(Tool, tool_last'.args.plan_id)
                   /\ Rendered(text) = tool_plans[k].steps
                   /\ \A j \in 1..Len(text.lines) : text.lines[j].i = j - 1
      ]_vars

\* create, then get with the plan_id omitted renders the two steps created
C20_Witness ==
    /\ Done("get")
    /\ tool_last.n = 2
    /\ tool_last.args.plan_id = NoPlan
    /\ Len(tool_plans) = 1
    /\ Rendered(tool_last.output.rows[1]) = <<"b", "a">>
    /\ tool_plans[1].steps = <<"b", "a">>

\* the call of this transition is command
Calls(command) == tool_last'.args.command = command

\* the plan a call without plan_id acts on is the current one
TargetId == IF tool_last'.args.plan_id = NoPlan THEN tool_current_plan_id
            ELSE tool_last'.args.plan_id

\* the position of the target plan in the store before the call
TargetAt ==
    IF \E k \in 1..Len(tool_plans) : tool_plans[k].plan_id = TargetId
    THEN CHOOSE k \in 1..Len(tool_plans) : tool_plans[k].plan_id = TargetId
    ELSE 0

\* the store but for the plan at position k is as before the call
OthersUnchanged(k) ==
    /\ Len(tool_plans') = Len(tool_plans)
    /\ \A j \in 1..Len(tool_plans) : j # k => tool_plans'[j] = tool_plans[j]

\* C21: a successful update replaces the title and/or the step list; for
\* every index i of the new list, status, notes and result are those of
\* the old step i when i is below the old length and the text at i is
\* unchanged, and NOT_STARTED / empty / none otherwise; so an update with
\* the same steps changes no status, note or result.  update of an unknown
\* plan_id is an error.
C21_UpdateKeepsUnchangedSteps ==
    [][Calls("update") =>
         LET a == tool_last'.args
             k == TargetAt
             old == tool_plans[k]
             new == tool_plans'[k]
             same(i) == i <= Len(old.steps) /\ new.steps[i] = old.steps[i]
         IN /\ k = 0 => /\ tool_last'.error # ""
                        /\ tool_plans' = tool_plans
                        /\ tool_current_plan_id' = tool_current_plan_id
            /\ (k # 0 /\ tool_last'.error = "") =>
                  /\ OthersUnchanged(k)
                  /\ tool_current_plan_id' = tool_current_plan_id
                  /\ new.plan_id = old.plan_id
                  /\ new.title = IF a.title # "" THEN a.title ELSE old.title
                  /\ new.steps = IF a.steps.kind = "list" THEN a.steps.items
                                 ELSE old.steps
                  /\ Len(new.step_statuses) = Len(new.steps)
                  /\ Len(new.step_notes) = Len(new.steps)
                  /\ Len(new.step_results) = Len(new.steps)
                  /\ \A i \in 1..Len(new.steps) :
                        IF same(i)
                        THEN /\ new.step_statuses[i] = old.step_statuses[i]
                             /\ new.step_notes[i] = old.step_notes[i]
                             /\ new.step_results[i] = old.step_results[i]
                        ELSE /\ new.step_statuses[i] = "not_started"
                             /\ new.step_notes[i] = ""
                             /\ new.step_results[i] = None
                  /\ new.steps = old.steps =>
                        /\ new.step_statuses = old.step_statuses
                        /\ new.step_notes = old.step_notes
                        /\ new.step_results = old.step_results
      ]_vars

\* an update to a longer list has kept the completed first step and added
\* a second one that is not started
C21_Witness ==
    /\ Done("update")
    /\ tool_last.n = 3
    /\ tool_last.args.steps = [kind |-> "list", items |-> <<"a", "b">>]
    /\ Len(tool_plans) = 1
    /\ tool_plans[1].steps = <<"a", "b">>
    /\ tool_plans[1].step_statuses = <<"completed", "not_started">>
    /\ tool_plans[1].step_notes = <<"n", "">>

\* the call of this transition did what the same call does when it names
\* the current plan
ActsOnCurrent ==
    LET named == Execute(Tool, [tool_last'.args EXCEPT
                                   !.plan_id = tool_current_plan_id])
    IN /\ tool_plans' = named.plans
       /\ tool_current_plan_id' = named.current
       /\ tool_last'.error = named.error
       /\ tool_last'.output = named.output

\* the call of this transition omits plan_id while a plan is current
Omits(commands) ==
    /\ tool_last'.args.command \in commands
    /\ tool_last'.args.plan_id = NoPlan
    /\ tool_current_plan_id # NoPlan

StoredIds == {tool_plans[k].plan_id : k \in 1..Len(tool_plans)}

\* C23: after any sequence of Plan Tool commands the current plan id is
\* none exactly when no plan is stored and otherwise names a stored plan;
\* deleting the current plan makes a remaining plan current (none if none
\* remains), deleting another plan leaves the current plan unchanged, and
\* delete or set_active of a plan_id that is not stored is an error that
\* changes nothing.
C23_CurrentPlanIsStored ==
    /\ [](/\ tool_current_plan_id = NoPlan <=> tool_plans = <<>>
          /\ tool_current_plan_id # NoPlan
                => tool_current_plan_id \in StoredIds)
    /\ [][LET a == tool_last'.args
              stored == a.plan_id \in StoredIds
          IN /\ (Calls("delete") /\ stored) =>
                   /\ tool_last'.error = ""
                   /\ {tool_plans'[k] : k \in 1..Len(tool_plans')}
                         = {tool_plans[k] : k \in 1..Len(tool_plans)}
                              \ {tool_plans[PlanAt(tool_plans, a.plan_id)]}
                   /\ Len(tool_plans') = Len(tool_plans) - 1
                   /\ IF a.plan_id = tool_current_plan_id
                      THEN IF tool_plans' = <<>>
                           THEN tool_current_plan_id' = NoPlan
                           ELSE \E k \in 1..Len(tool_plans') :
                                   tool_current_plan_id' = tool_plans'[k].plan_id
                      ELSE tool_current_plan_id' = tool_current_plan_id
             /\ (Calls("set_active") /\ stored) =>
                   /\ tool_last'.error = ""
                   /\ tool_current_plan_id' = a.plan_id
                   /\ tool_plans' = tool_plans
             /\ ((Calls("delete") \/ Calls("set_active"))
                 /\ a.plan_id # NoPlan /\ ~stored) =>
                   /\ tool_last'.error # ""
                   /\ tool_plans' = tool_plans
                   /\ tool_current_plan_id' = tool_current_plan_id
         ]_vars

\* the second of two plans has been deleted and the first one, still
\* stored, is current
C23_Witness ==
    /\ Done("delete")
    /\ tool_last.n = 3
    /\ tool_last.args.plan_id = "p2"
    /\ Len(tool_plans) = 1
    /\ tool_plans[1].plan_id = "p1"
    /\ tool_current_plan_id = "p1"

\* C24: add_result with a step_index in [0, len(steps)) records the result
\* string for that step and changes no status, note, other result or
\* step; a call whose step_index is missing or outside [0, len(steps)) is
\* an error and leaves the plan unchanged.
C24_AddResultNeedsIndex ==
    [][(Calls("add_result") /\ TargetAt # 0) =>
         LET a == tool_last'.args
             k == TargetAt
             old == tool_plans[k]
             new == tool_plans'[k]
             i == a.step_index
         IN IF i # NoneIndex /\ 0 <= i /\ i < Len(old.steps)
            THEN /\ tool_last'.error = ""
                 /\ OthersUnchanged(k)
                 /\ new = [old EXCEPT !.step_results[i + 1] =
                              IF a.step_result = None THEN ""
                              ELSE a.step_result]
            ELSE /\ tool_last'.error # ""
                 /\ tool_plans' = tool_plans
      ]_vars

\* ------------------------------------------------- the executor's tools
ToolsGiven == agent_last.op = "step" /\ agent_last.called_llm

\* the tools the step had to merge, built-in tools first
Offered == BuiltInTools \o agent_last.hub

\* the position in Offered of the first descriptor of each name, ascending
FirstOfName == {k \in 1..Len(Offered) : \A j \in 1..(k - 1) : Offered[j].name # Offered[k].name}

\* merged[k] is the descriptor at the k-th smallest position of FirstOfName
KeepsFirsts(merged) ==
    /\ Len(merged) = Cardinality(FirstOfName)
    /\ \A k \in 1..Len(merged) :
          \E p \in FirstOfName :
             /\ Cardinality({q \in FirstOfName : q <= p}) = k
             /\ merged[k] = Offered[p]

\* C25: the tool list a step hands to the LLM has pairwise distinct function
\* names and is the list (built-in tools, then Function Hub results) with
\* every descriptor dropped whose name occurred earlier in it, the others in
\* their order; so every built-in tool is in it and no Function Hub tool
\* named like a built-in is.
C25_MergedToolsKeepFirst ==
    ToolsGiven =>
       /\ \A i, j \in 1..Len(agent_last.tools) :
             agent_last.tools[i].name = agent_last.tools[j].name => i = j
       /\ KeepsFirsts(agent_last.tools)
       /\ SubSeq(agent_last.tools, 1, Len(BuiltInTools)) = BuiltInTools
       /\ \A k \in 1..Len(agent_last.hub) :
             agent_last.hub[k].name \in {BuiltInTools[b].name : b \in 1..Len(BuiltInTools)}
                => \A i \in 1..Len(agent_last.tools) : agent_last.tools[i] # agent_last.hub[k]

\* the Function Hub returned two tools named finish and both were dropped
C25_Witness ==
    /\ ToolsGiven
    /\ Len(agent_last.hub) = 2
    /\ \E k \in 1..2 : agent_last.hub[k].name = "finish"
    /\ Len(agent_last.tools) = Len(BuiltInTools)

\* ------------------------------------------------- the executor's queue
AgentStepped == agent_last.op = "step"

\* the queue holds the actions from index `from` on of one response, in order
RestOfResponse(pending, response, from) ==
    \A k \in 1..Len(pending) : pending[k] = ParsedAction(response, from + k - 1)

\* what the last call of the agent did
DrainsQueue ==
    /\ AgentStepped /\ agent_last.pre # <<>> =>
          /\ agent_last.returned = Head(agent_last.pre)
          /\ pending_actions = Tail(agent_last.pre)
          /\ ~agent_last.called_llm
          /\ ~agent_last.checked_exit
    /\ AgentStepped /\ agent_last.pre = <<>> /\ agent_last.message = "/exit" =>
          /\ agent_last.returned = AgentFinishAction
          /\ ~agent_last.called_llm
          /\ pending_actions = <<>>
    /\ AgentStepped /\ agent_last.called_llm =>
          /\ agent_last.returned = ParsedAction(completions, 1)
          /\ RestOfResponse(pending_actions, completions, 2)
    /\ agent_last.op = "reset" => pending_actions = <<>>
    /\ AgentStepped /\ agent_last.returned.kind = "parsed" =>
          agent_last.returned.response > agent_last.reset_at
    /\ \A k \in 1..Len(pending_actions) :
          pending_actions[k].response > agent_last.reset_at

\* the step that returns the i-th action of a response, i > 1, follows the
\* step that returned its (i-1)-th action, and a call on a non-empty queue
\* leaves the number of LLM calls as it was
InResponseOrder ==
    /\ pending_actions # <<>> => completions' = completions
    /\ agent_last'.op = "step" /\ agent_last'.returned.index > 1 =>
          /\ AgentStepped
          /\ agent_last.returned =
                ParsedAction(agent_last'.returned.response,
                             agent_last'.returned.index - 1)

\* C26: step() returns the actions parsed from one LLM response one per call
\* in response order; while the queue is non-empty a call neither calls the
\* LLM nor tests for /exit; on an empty queue with the latest user message
\* /exit it returns AgentFinish without calling the LLM; reset() leaves the
\* queue empty and no action parsed before the last reset is returned.
C26_QueueDrainedBeforeLLM == []DrainsQueue /\ [][InResponseOrder]_vars

\* after a reset that followed an LLM call, the second action of a later
\* response is returned from the queue
C26_Witness ==
    /\ AgentStepped
    /\ agent_last.reset_at >= 1
    /\ agent_last.pre # <<>>
    /\ agent_last.returned.index = 2
    /\ agent_last.message = "/exit"

\* ------------------------------------------- the Function Hub observation
Ran == hub_last.ran /\ ~hub_last.observation.raised

\* the contents of the results of the given types, in list order
ContentsOf(types) ==
    LET of == SelectSeq(hub_last.responses, LAMBDA r : r.response_type \in types)
    IN  [k \in 1..Len(of) |-> of[k].content]

\* the results that carry a blob, with content
Blobs == SelectSeq(ContentsOf({"blob", "image", "video", "audio"}), LAMBDA c : c # <<>>)

\* C27: the observation made of a list of typed results has as blob the
\* content of the first BLOB, IMAGE, VIDEO or AUDIO result with non-empty
\* content, as each url list the contents of the results of its kind in
\* list order, as error the contents of the ERROR results joined by
\* newlines, and a text none of whose lines comes from an ERROR result.
C27_FlattenedObservation ==
    Ran =>
       /\ hub_last.observation.blob = (IF Blobs = <<>> THEN <<>> ELSE Blobs[1])
       /\ hub_last.observation.image_urls = ContentsOf({"image_url"})
       /\ hub_last.observation.video_urls = ContentsOf({"video_url"})
       /\ hub_last.observation.audio_urls = ContentsOf({"audio_url"})
       /\ hub_last.observation.error = Join(ContentsOf({"error"}))
       /\ hub_last.observation.text_content =
             FunctionHubRunner_run(SelectSeq(hub_last.responses, LAMBDA r : r.response_type # "error")).text_content

\* ------------------------------------------------------ the default plan
\* the first planning step of a run has ended
FirstStepEnded == planning_agent.pc = "created"

\* the plan stored under the agent's id is the default plan, not started
DefaultPlanStored ==
    LET k == PlanAt(tool_plans, PlanId)
    IN  /\ k # 0
        /\ tool_plans[k].steps = DefaultSteps
        /\ tool_plans[k].step_statuses = Repeat(Len(DefaultSteps), "not_started")
        /\ tool_current_plan_id = PlanId

\* run() goes on with the first step of the plan
ProceedsWithFirstStep ==
    /\ planning_agent'.pc = "loop"
    /\ planning_agent'.current_step_index = 0
    /\ tool_plans'[PlanAt(tool_plans', PlanId)].step_statuses[1] = "in_progress"

\* C28: whenever the first planning step of a run ends and no plan was
\* stored under the active plan id before it, the default plan (Analyze the
\* request, Perform tasks, Check the result; all NOT_STARTED) is stored and
\* active, and the run goes on with its first step.
C28_DefaultPlanFallback ==
    /\ [](FirstStepEnded /\ ~planning_agent.had_plan => DefaultPlanStored)
    /\ [][FirstStepEnded /\ ~planning_agent.had_plan => ProceedsWithFirstStep]_vars

\* ---------------------------------------------------- the planning updates
\* the formatted plan has the line Steps: and after it one row per step of
\* the stored plan, the completed mark on exactly the completed steps
RendersPlan(content) ==
    LET k == PlanAt(tool_plans, PlanId)
    IN  /\ k # 0
        /\ Len(content.rows) = 1
        /\ Len(content.rows[1].lines) = Len(tool_plans[k].steps)
        /\ \A j \in 1..Len(tool_plans[k].steps) :
              content.rows[1].lines[j].mark = "[v]"
                 <=> tool_plans[k].step_statuses[j] = "completed"

\* C29: every update of type planning that run() yields is a rendering of
\* the active plan: the line Steps:, one row per step, and the completed
\* mark on exactly the steps that are COMPLETED when the update is yielded.
C29_PlanningUpdatesRenderPlan ==
    planning_agent.update.mtype = "planning" => RendersPlan(planning_agent.update.content)

\* ------------------------------------------- the planner and its delegates
\* the delegates whose AgentFinish has not been published
Unfinished == {d \in 1..Len(delegates) : delegates[d].state # "FINISHED"}

\* the last transition handled the user message that carries a task
HandledTaskMessage ==
    /\ Handled("Message")
    /\ last.ev.source = "USER"
    /\ last.ev.task >= 0

\* a task that becomes COMPLETED does so by the AgentFinish of its delegate
CompletedByOwnDelegate ==
    \A p \in PlanIds : \A i \in 0..(MaxTasks - 1) :
       Completes(p, i) =>
          /\ Handling("AgentFinish")
          /\ Head(queue).sender > 0
          /\ delegates[Head(queue).sender].plan = p
          /\ delegates[Head(queue).sender].task = i

\* C30: the planner's step is not called between the AssignTask of a task
\* and the AgentFinish of the task's delegate, whatever the state of the
\* delegate; the user message that carries the task causes no planner step;
\* and a task becomes COMPLETED only by the AgentFinish of its own delegate.
C30_PlannerWaitsForDelegate ==
    /\ [](last.op = "on_event" /\ last.planner => Unfinished = {})
    /\ [](HandledTaskMessage => ~last.planner)
    /\ [][CompletedByOwnDelegate]_vars

\* --------------------------------------------------- failed tool commands
\* the call of this transition raised
Fails == tool_last'.n = tool_last.n + 1 /\ tool_last'.error # ""

\* C34: a command of the planning tool that fails with an error leaves the
\* plan store as it was: every plan's title, steps, statuses, notes and
\* results, and the current plan id.
C34_FailedCommandChangesNothing ==
    [][Fails => tool_plans' = tool_plans /\ tool_current_plan_id' = tool_current_plan_id]_vars

\* ------------------------------------------------ the name -> id mapping
\* the Function Hub descriptors that remain in the merged tool list
RetainedHubTools ==
    {agent_last.tools[k] : k \in {j \in 1..Len(agent_last.tools) :
                                     agent_last.tools[j].id_functionhub # 0}}

\* C35: the name -> external id map a step hands to the response parser
\* has exactly the names of the Function Hub tools that are in the merged
\* tool list, each with the id of the retained descriptor; so no name of a
\* built-in tool is in it, and of two hub tools of one name the id of the
\* first is used.
C35_IdsMatchMergedTools ==
    ToolsGiven =>
       /\ DOMAIN agent_last.ids = {tool.name : tool \in RetainedHubTools}
       /\ \A tool \in RetainedHubTools :
             agent_last.ids[tool.name] = tool.id_functionhub
       /\ \A b \in 1..Len(BuiltInTools) :
             BuiltInTools[b].name \notin DOMAIN agent_last.ids

\* ------------------------------------------------- when a step is scheduled
\* the agent state should_step reads: the state the handler of the event
\* leaves, which for an agent message that waits for a response is
\* AWAITING_USER_INPUT
StateAtDecision ==
    IF last.ev.kind = "Message" /\ last.ev.source = "AGENT" /\ last.ev.wait
    THEN "AWAITING_USER_INPUT"
    ELSE last.pre.agent_state

FromUser == last.ev.kind = "Message" /\ last.ev.source = "USER"

AgentMessageWhileNotAwaiting ==
    /\ last.ev.kind = "Message"
    /\ last.ev.source # "USER"
    /\ StateAtDecision # "AWAITING_USER_INPUT"

\* the handler of the event returned, so that should_step was asked
Decided == last.op = "on_event" /\ (last.exc = "" \/ last.step)

Truncating ==
    /\ Handling(Head(queue).kind)
    /\ enable_history_truncation
    /\ last'.planner
    /\ last'.result = "ContextWindow"

\* the history _handle_long_context_error is given: the one the dispatch of
\* the event leaves
HistoryAtOverflow == HandleEvent(Cur, Head(queue)).history

\* C32: truncating a history of n >= 2 events yields a history of strictly
\* fewer than n events, so that truncate-and-retry cannot go on on an
\* unchanged history.
C32_TruncationMakesProgress ==
    [][Truncating /\ Len(HistoryAtOverflow) >= 2
          => Len(history') < Len(HistoryAtOverflow)]_vars

\* ------------------------------------------ reloads after a truncation
\* the first message of the user in the stream
U0 == FirstUserMessage(stream)

\* the last transition truncated the history
TruncatedNow ==
    /\ last.op = "on_event"
    /\ last.planner
    /\ last.result = "ContextWindow"
    /\ enable_history_truncation

\* truncation_id is the id of the first kept event, start_id the id of U0
IdsRecorded ==
    /\ history[1] = U0
    /\ start_id = U0.id
    /\ Len(history) >= 2 => truncation_id = history[2].id

\* the session was restored after a truncation
Reloaded == last.op = "restore" /\ truncation_id > 0

\* U0 once, then the non-filtered events from truncation_id to the end
ReloadedWindow == history = <<U0>> \o GetEvents(stream, truncation_id)

\* C39: after a truncation truncation_id is the id of the first kept event
\* and start_id the id of the first user message U0; every later reload of
\* the history from the stream, a second one included, yields U0 exactly
\* once followed by the non-filtered events from truncation_id to the end.
C39_ReloadKeepsFirstUserMessage ==
    /\ TruncatedNow => IdsRecorded
    /\ Reloaded => ReloadedWindow

\* ------------------------------------------------- the active plan's tasks
ActiveTasks == plans[active_plan_id]

HasActivePlan == active_plan_id \in PlanIds /\ ActiveTasks # <<>>

InProgress(tasks) == {k \in 1..Len(tasks) : tasks[k].status = "IN_PROGRESS"}

AtMostOneInProgress == Cardinality(InProgress(ActiveTasks)) <= 1

IndexInRange ==
    current_task_index >= 0 /\ current_task_index < Len(ActiveTasks)

\* current_task_index counts from 0, the sequence of tasks from 1
EarlierCompleted ==
    \A k \in 1..Len(ActiveTasks) :
       k <= current_task_index => ActiveTasks[k].status = "COMPLETED"

\* a COMPLETED task of the active plan is COMPLETED after the transition
CompletedStays ==
    \A k \in 1..Len(ActiveTasks) :
       ActiveTasks[k].status = "COMPLETED"
          => /\ k <= Len(plans'[active_plan_id])
             /\ plans'[active_plan_id][k].status = "COMPLETED"

\* C36: in the controller's active plan, in every reachable state: at most
\* one task is IN_PROGRESS, 0 <= current_task_index < number of tasks, every
\* task with an index below current_task_index is COMPLETED, and a
\* COMPLETED task never changes status again.
C36_ActivePlanWellFormed ==
    /\ [](HasActivePlan =>
             AtMostOneInProgress /\ IndexInRange /\ EarlierCompleted)
    /\ [][HasActivePlan => CompletedStays]_vars

\* ------------------------------------------- what enters the history
\* a delegate controller is in agent state RUNNING
DelegateRunningIn(ds) == \E d \in 1..Len(ds) : ds[d].state = "RUNNING"

\* the delivered event is left out of the planner's history
LeftOut == history' = history

\* the delivered event is appended to the planner's history, once
AppendedOnce == history' = Append(history, Head(queue))

\* C37: a received event that is not of a dropped type is appended to the
\* planner's history exactly once; while a delegate is running only
\* AgentFinish and AssignTask events are appended and every other event is
\* left out; events of a dropped type are never appended.  (A delegate
\* that starts to run on the delivered event itself may count either way.)
C37_HistoryAppendRule ==
    [][Handling(Head(queue).kind) =>
          LET kind == Head(queue).kind
              before == DelegateRunningIn(delegates)
              after == DelegateRunningIn(DelegatesHandle(delegates, Head(queue)))
          IN /\ kind \in FilterOut => LeftOut
             /\ kind \in PassType => AppendedOnce
             /\ kind \notin FilterOut \cup PassType =>
                   /\ before => LeftOut
                   /\ ~after => AppendedOnce
                   /\ LeftOut \/ AppendedOnce
      ]_vars

\* ------------------------------------------- bookkeeping per controller
\* every delegate in the map a controller reads was registered by it
OwnEntries ==
    \A s \in Sessions : \A k \in Keys :
       LET ref == TaskControllersOf(sessions, s)[k]
       IN ref # NoController => ref.session = s

\* a session without a RUNNING delegate of its own appends the event it
\* receives, unless its type is dropped, and takes the step it schedules
NotBlockedByOthers ==
    (sessions.last.op = "receive" /\ ~sessions.last.own_running) =>
       /\ sessions.last.should_step => sessions.last.stepped
       /\ sessions.last.should_step => sessions.last.appended

\* C31: a delegate registered by one PlanController never appears in the
\* delegate map of another PlanController, so a RUNNING delegate of one
\* session neither blocks the steps nor filters the history of another.
C31_DelegatesPerController == OwnEntries /\ NotBlockedByOthers

\* ------------------------------------------------------ confirmation mode
\* positions in last.out of the commands published with confirmation state s
Commands(s) ==
    {k \in 1..Len(last.out) :
        last.out[k].kind = "CmdRun" /\ last.out[k].status = s}

\* positions in last.out of the announcements of agent state s
AnnouncedAt(s) ==
    {k \in 1..Len(last.out) :
        last.out[k].kind = "AgentStateChanged" /\ last.out[k].status = s}

\* the planner's step returned a shell command
ReturnedCommand == last.op = "on_event" /\ last.planner /\ last.result = "CmdRun"

AwaitingConfirmation ==
    last.op = "on_event" /\ last.pre.agent_state = "AWAITING_USER_CONFIRMATION"

\* the user's decision s is handled while a confirmation is awaited
DecisionHandled(s) ==
    /\ AwaitingConfirmation
    /\ last.ev.kind = "ChangeAgentState"
    /\ last.ev.status = s
    /\ last.pre.pending.kind # "None"

\* the observation of the pending action is delivered in agent state s
Matched(s) ==
    /\ last.op = "on_event"
    /\ IsObservation(last.ev)
    /\ last.pre.pending.kind # "None"
    /\ last.ev.cause = last.pre.pending.id
    /\ last.pre.agent_state = s

\* C38: with confirmation mode on, a shell command the planner's step
\* returns is published with confirmation_state AWAITING_CONFIRMATION after
\* the agent state became AWAITING_USER_CONFIRMATION; while the state is
\* AWAITING_USER_CONFIRMATION no step calls the planner and no observation
\* clears the pending action; on USER_CONFIRMED (USER_REJECTED) the pending
\* action is published again with status CONFIRMED (REJECTED), and the
\* matching observation clears it and moves the state to RUNNING
\* (AWAITING_USER_INPUT).
C38_ConfirmationFlow ==
    /\ (confirmation_mode /\ ReturnedCommand) =>
          /\ Commands("") = {}
          /\ \E k \in Commands("AWAITING_CONFIRMATION") :
                /\ \E j \in AnnouncedAt("AWAITING_USER_CONFIRMATION") : j < k
                /\ pending_action = last.out[k]
          /\ agent_state = "AWAITING_USER_CONFIRMATION"
    /\ AwaitingConfirmation => ~last.planner
    /\ (AwaitingConfirmation /\ IsObservation(last.ev)) =>
          pending_action = last.pre.pending
    /\ DecisionHandled("USER_CONFIRMED") =>
          /\ Commands("CONFIRMED") # {}
          /\ pending_action.status = "CONFIRMED"
          /\ agent_state = "USER_CONFIRMED"
    /\ DecisionHandled("USER_REJECTED") =>
          /\ Commands("REJECTED") # {}
          /\ pending_action.status = "REJECTED"
          /\ agent_state = "USER_REJECTED"
    /\ Matched("USER_CONFIRMED") =>
          /\ pending_action.id # last.pre.pending.id
          /\ AnnouncedAt("RUNNING") = {1}
    /\ Matched("USER_REJECTED") =>
          /\ pending_action = NoEvent
          /\ agent_state = "AWAITING_USER_INPUT"

\* a confirmed command has been answered and the agent runs again
C38_Witness ==
    /\ confirmation_mode
    /\ Matched("USER_CONFIRMED")
    /\ last.pre.pending.status = "CONFIRMED"
    /\ AnnouncedAt("RUNNING") = {1}

\* ------------------------------------------- runs of the planning agent
\* the plan of the agent in the tool
AgentPlan == tool_plans[PlanAt(tool_plans, PlanId)]

PlanExists == PlanAt(tool_plans, PlanId) # 0

\* the steps of the plan that are not started or in progress
Remaining(plan) ==
    {i \in 0..(Len(plan.steps) - 1) :
        plan.step_statuses[i + 1] \in {"not_started", "in_progress"}}

\* run() is suspended in its loop with a step to execute
Executing ==
    planning_agent.pc = "loop" /\ planning_agent.current_step_index # NoneIndex

\* run() goes on from a yield
GoesOn == planning_agent' # planning_agent

\* run() picks the step it executes next
Picks ==
    /\ GoesOn
    /\ planning_agent'.pc = "loop"
    /\ planning_agent'.current_step_index # NoneIndex

\* the step picked is the first that was not started or in progress, so it
\* was neither blocked nor completed
PicksFirstRemaining ==
    Picks =>
       LET i == planning_agent'.current_step_index
           before == IF Executing
                     THEN Remaining(AgentPlan) \ {planning_agent.current_step_index}
                     ELSE Remaining(AgentPlan)
       IN /\ i \in before
          /\ \A j \in before : i <= j
          /\ Executing => i > planning_agent.current_step_index

\* the step executed is left completed, with a result
LeavesCompleted ==
    (Executing /\ GoesOn) =>
       LET i == planning_agent.current_step_index
           plan == tool_plans'[PlanAt(tool_plans', PlanId)]
       IN /\ plan.step_statuses[i + 1] = "completed"
          /\ plan.step_results[i + 1] # None

\* the final answer is yielded when nothing remains, and nothing follows it
FinalAnswerLast ==
    /\ (GoesOn /\ planning_agent.pc # "final") =>
          (planning_agent'.update.mtype = "final_answer") = (planning_agent'.pc = "final")
    /\ (GoesOn /\ planning_agent'.pc = "final") =>
          /\ planning_agent.pc = "loop"
          /\ ~Executing
          /\ Remaining(AgentPlan) = {}
          /\ tool_plans' = tool_plans
    /\ (GoesOn /\ planning_agent.pc = "final") =>
          /\ planning_agent'.pc = "idle"
          /\ planning_agent'.update = planning_agent.update
    /\ (GoesOn /\ planning_agent.pc = "loop" /\ ~Executing) =>
          planning_agent'.pc = "final"

OneInProgress ==
    PlanExists =>
       Cardinality({i \in 1..Len(AgentPlan.steps) :
                       AgentPlan.step_statuses[i] = "in_progress"}) <= 1

\* C40: once the initial plan exists run() terminates whatever the LLM
\* does: it executes the steps one at a time in increasing index order,
\* never a blocked or completed one, has at most one step in progress at
\* any time, leaves every executed step completed with a result, and
\* yields one final_answer, as its last update, when no step remains that
\* is not started or in progress.
C40_RunTerminates ==
    /\ []OneInProgress
    /\ [][PicksFirstRemaining /\ LeavesCompleted /\ FinalAnswerLast]_vars
    /\ []((planning_agent.pc = "created" /\ PlanExists)
             => <>(planning_agent.pc = "final"))
    /\ [](planning_agent.pc = "final" => <>(planning_agent.pc = "idle"))

\* a run has ended with its final answer on a plan whose second step was
\* blocked and never executed
C40_Witness ==
    /\ planning_agent.pc = "final"
    /\ planning_agent.update.mtype = "final_answer"
    /\ AgentPlan.step_statuses = <<"completed", "blocked", "completed">>
    /\ AgentPlan.step_results[2] = None

====
